---- MODULE Spec2Model ----
(***************************************************************************)
(* A model of the tree-walking Lox interpreter of this repository.         *)
(*                                                                         *)
(* The evaluator (src/src/interpreter.rs) is a set of mutually recursive   *)
(* Rust methods.  The model makes the Rust call stack explicit: `stack` is *)
(* a sequence of activation records, one per live invocation of            *)
(* interpret / execute / execute_block / evaluate / LoxFunction::call, and *)
(* `ret` is the value the most recently finished invocation handed back to *)
(* its caller.  Every handler of the match in execute and in evaluate is   *)
(* one action, split at the points where the handler calls back into the   *)
(* evaluator.                                                              *)
(*                                                                         *)
(* Environments (src/src/environment.rs) are Rc<RefCell<Inner>> handles;   *)
(* the model keeps all Inner objects in the sequence `frames` and a handle *)
(* is an index into it.  Callables (Rc<RefCell<dyn Callable>>) live in     *)
(* `funcs`; a Value::Function carries the index, so pointer identity is    *)
(* index identity.                                                         *)
(*                                                                         *)
(* The `run` command (src/src/main.rs) is the variable `main`: the file    *)
(* contents it read, the place it has reached (scan, scanned, interpret,   *)
(* exit, or panic) and its exit code.  `scanner` is the Scanner            *)
(* (src/src/scanner.rs), which takes one lexeme per step; the parser       *)
(* (src/src/parser.rs) keeps no state between steps and is a set of        *)
(* operators.  `errors` is what was written to standard error, `output`    *)
(* what was written to standard output.  Spec starts from parsed programs, *)
(* MainSpec from the source texts given to the `run` and `evaluate`        *)
(* commands, and ScanSpec is scan_tokens alone, with fairness of its loop. *)
(***************************************************************************)
EXTENDS Integers, Sequences, FiniteSets, TLC

VARIABLES main, scanner, errors,
          program, frames, funcs, globals, environment, stack, ret, output

vars == <<main, scanner, errors,
          program, frames, funcs, globals, environment, stack, ret, output>>

(***************************************************************************)
(* Bounds of the model                                                     *)
(***************************************************************************)
MaxFrames == 10
MaxDepth == 24
MaxProgLen == 2
MaxFracDigits == 16
MaxOutput == 6

(***************************************************************************)
(* Tokens and literals                                                     *)
(***************************************************************************)
None == [type |-> "None"]

Token(token_type, lexeme, literal, line) ==
    [token_type |-> token_type, lexeme |-> lexeme, literal |-> literal, line |-> line]

LitNil == [kind |-> "Nil"]
LitBoolean(b) == [kind |-> "Boolean", b |-> b]
LitString(s) == [kind |-> "String", s |-> s]
LitNumber(n) == [kind |-> "Number", num |-> n, den |-> 1]

(***************************************************************************)
(* Scanner (src/src/scanner.rs).  The source text is a string, a character *)
(* is a string of length one, and positions count characters from 0 as     *)
(* chars().nth does.                                                       *)
(***************************************************************************)
ScannerNew(source) ==
    [source |-> source, tokens |-> <<>>, start |-> 0, current |-> 0, line |-> 1,
     had_error |-> FALSE]

Keywords ==
    [and |-> "And", class |-> "Class", else |-> "Else", false |-> "False",
     for |-> "For", fun |-> "Fun", if |-> "If", nil |-> "Nil", or |-> "Or",
     print |-> "Print", return |-> "Return", super |-> "Super", this |-> "This",
     true |-> "True", var |-> "Var", while |-> "While"]

\* the character '\0' that peek_at returns past the end of the source
Nul == ""

CharsOf(text) == {SubSeq(text, i, i) : i \in 1..Len(text)}

\* char::is_numeric is true of the ASCII digits and of the other characters of
\* the Unicode categories Nd, Nl and No, of which the model has the
\* fraction three quarters; char::is_alphabetic is true of the letters, of which the
\* model has the ASCII letters and e with acute accent.
AsciiDigits == "0123456789"
IsNumeric(character) == character \in CharsOf(AsciiDigits) \cup {"¾"}
IsAlphabetic(character) ==
    character \in CharsOf("abcdefghijklmnopqrstuvwxyzABCDEFGHIJKLMNOPQRSTUVWXYZé")

ScannerIsAtEnd(s) == s.current >= Len(s.source)

ScannerText(s) == SubSeq(s.source, s.start + 1, s.current)

ScannerAdvance(s) == [s EXCEPT !.current = @ + 1]

ScannerPeekAt(s, n) ==
    IF s.current + n >= Len(s.source) THEN Nul
    ELSE SubSeq(s.source, s.current + n + 1, s.current + n + 1)

ScannerPeek(s) == ScannerPeekAt(s, 0)

\* match_: the scanner after the call, which has moved iff the result is true
ScannerMatch(s, expected) ==
    IF ScannerIsAtEnd(s) THEN s
    ELSE IF SubSeq(s.source, s.current + 1, s.current + 1) # expected THEN s
    ELSE [s EXCEPT !.current = @ + 1]

AddToken(s, token_type, literal) ==
    [s EXCEPT !.tokens = Append(@, Token(token_type, ScannerText(s), literal, s.line))]

IsNumber(character) == IsNumeric(character)
IsAlpha(character) == IsAlphabetic(character) \/ character = "_"
IsAlphaOrNumber(character) == IsAlpha(character) \/ IsNumber(character)

RECURSIVE AdvanceNextLine(_)
AdvanceNextLine(s) ==
    IF ScannerPeek(s) # "\n" /\ ~ScannerIsAtEnd(s)
    THEN AdvanceNextLine(ScannerAdvance(s))
    ELSE s

\* the loop of string()
RECURSIVE AdvanceString(_)
AdvanceString(s) ==
    IF ScannerPeek(s) # "\"" /\ ~ScannerIsAtEnd(s)
    THEN AdvanceString(ScannerAdvance(
             IF ScannerPeek(s) = "\n" THEN [s EXCEPT !.line = @ + 1] ELSE s))
    ELSE s

\* the loops of number()
RECURSIVE AdvanceNumber(_)
AdvanceNumber(s) ==
    IF IsNumber(ScannerPeek(s)) THEN AdvanceNumber(ScannerAdvance(s)) ELSE s

\* the loop of identifier()
RECURSIVE AdvanceIdentifier(_)
AdvanceIdentifier(s) ==
    IF IsAlphaOrNumber(ScannerPeek(s)) THEN AdvanceIdentifier(ScannerAdvance(s)) ELSE s

DigitValue(character) ==
    CHOOSE d \in 0..9 : SubSeq(AsciiDigits, d + 1, d + 1) = character

\* str::parse::<f64> of a text of numeric characters with at most one '.':
\* Ok with the number num / den, or Err when a character is not an ASCII
\* digit; `digits` counts the characters read after the '.'
RECURSIVE ParseF64From(_, _, _, _)
ParseF64From(text, num, den, fraction) ==
    IF text = "" THEN [tag |-> "Ok", num |-> num, den |-> den]
    ELSE IF Head(text) = "." THEN ParseF64From(Tail(text), num, den, TRUE)
    ELSE IF Head(text) \notin CharsOf(AsciiDigits) THEN [tag |-> "Err"]
    ELSE ParseF64From(Tail(text), num * 10 + DigitValue(Head(text)),
                      IF fraction THEN den * 10 ELSE den, fraction)

ParseF64(text) == ParseF64From(text, 0, 1, FALSE)

(***************************************************************************)
(* Expression and Statement variants                                       *)
(***************************************************************************)
Literal(value) == [type |-> "Literal", value |-> value]
Grouping(child) == [type |-> "Grouping", child |-> child]
Unary(operator, right) == [type |-> "Unary", operator |-> operator, right |-> right]
Binary(left, operator, right) ==
    [type |-> "Binary", left |-> left, operator |-> operator, right |-> right]
Variable(name) == [type |-> "Variable", name |-> name]
Assign(name, right) == [type |-> "Assign", name |-> name, right |-> right]
Logical(left, operator, right) ==
    [type |-> "Logical", left |-> left, operator |-> operator, right |-> right]
Call(callee, parenthesis, arguments) ==
    [type |-> "Call", callee |-> callee, parenthesis |-> parenthesis,
     arguments |-> arguments]

StmtExpression(expression) == [type |-> "Expression", expression |-> expression]
StmtFunction(name, parameters, body) ==
    [type |-> "Function", name |-> name, parameters |-> parameters, body |-> body]
StmtIf(condition, then_branch, else_branch) ==
    [type |-> "If", condition |-> condition, then_branch |-> then_branch,
     else_branch |-> else_branch]
StmtPrint(expression) == [type |-> "Print", expression |-> expression]
StmtVariable(name, initializer) ==
    [type |-> "Variable", name |-> name, initializer |-> initializer]
StmtReturn(keyword, value) == [type |-> "Return", keyword |-> keyword, value |-> value]
StmtWhile(condition, body) == [type |-> "While", condition |-> condition, body |-> body]
StmtBlock(statements) == [type |-> "Block", statements |-> statements]

(***************************************************************************)
(* Runtime values.  A Number is an f64, modelled as the extended rational  *)
(* num/den in lowest terms with den >= 0: den = 0 is +inf (num = 1),       *)
(* -inf (num = -1) or NaN (num = 0).  Rounding and -0.0 are not modelled.  *)
(***************************************************************************)
Nil == [kind |-> "Nil"]
Boolean(b) == [kind |-> "Boolean", b |-> b]
String(s) == [kind |-> "String", s |-> s]
Function(ptr) == [kind |-> "Function", ptr |-> ptr]

Abs(n) == IF n < 0 THEN -n ELSE n
Sign(n) == IF n < 0 THEN -1 ELSE IF n > 0 THEN 1 ELSE 0

RECURSIVE Gcd(_, _)
Gcd(a, b) == IF b = 0 THEN a ELSE Gcd(b, a % b)

Number(num, den) ==
    IF den = 0
    THEN [kind |-> "Number", num |-> Sign(num), den |-> 0]
    ELSE LET g == Gcd(Abs(num), Abs(den))
             s == Sign(den)
         IN [kind |-> "Number", num |-> (s * num) \div g, den |-> (s * den) \div g]

IsNaN(x) == x.den = 0 /\ x.num = 0

NumNeg(x) == Number(-x.num, x.den)
NumAdd(x, y) ==
    IF x.den = 0 /\ y.den = 0
    THEN (IF x.num = y.num THEN x ELSE Number(0, 0))
    ELSE Number(x.num * y.den + y.num * x.den, x.den * y.den)
NumSub(x, y) == NumAdd(x, NumNeg(y))
NumMul(x, y) == Number(x.num * y.num, x.den * y.den)
NumDiv(x, y) ==
    IF y.num = 0
    THEN (IF y.den = 0 THEN Number(0, 0) ELSE Number(x.num, 0))
    ELSE Number(x.num * y.den * Sign(y.num), x.den * Abs(y.num))
NumEq(x, y) == ~IsNaN(x) /\ ~IsNaN(y) /\ x.num = y.num /\ x.den = y.den
NumLess(x, y) ==
    /\ ~IsNaN(x)
    /\ ~IsNaN(y)
    /\ IF x.den = 0 /\ y.den = 0 THEN x.num < y.num
       ELSE x.num * y.den < y.num * x.den

ValueFromLiteral(literal) ==
    CASE literal.kind = "Nil" -> Nil
      [] literal.kind = "Boolean" -> Boolean(literal.b)
      [] literal.kind = "String" -> String(literal.s)
      [] literal.kind = "Number" -> Number(literal.num, literal.den)

\* as ValueEq, but comparing functions by their declarations
ValueEqFunctionsByCode(a, b) ==
    CASE a.kind = "Nil" /\ b.kind = "Nil" -> TRUE
      [] a.kind = "Boolean" /\ b.kind = "Boolean" -> a.b = b.b
      [] a.kind = "String" /\ b.kind = "String" -> a.s = b.s
      [] a.kind = "Number" /\ b.kind = "Number" -> NumEq(a, b)
      [] a.kind = "Function" /\ b.kind = "Function" ->
           /\ funcs[a.ptr].kind = funcs[b.ptr].kind
           /\ funcs[a.ptr].kind = "LoxFunction" =>
                /\ funcs[a.ptr].name = funcs[b.ptr].name
                /\ funcs[a.ptr].parameters = funcs[b.ptr].parameters
                /\ funcs[a.ptr].body = funcs[b.ptr].body
      [] OTHER -> FALSE

ValueEq(a, b) ==
    CASE a.kind = "Nil" /\ b.kind = "Nil" -> TRUE
      [] a.kind = "Boolean" /\ b.kind = "Boolean" -> a.b = b.b
      [] a.kind = "String" /\ b.kind = "String" -> a.s = b.s
      [] a.kind = "Number" /\ b.kind = "Number" -> NumEq(a, b)
      [] a.kind = "Function" /\ b.kind = "Function" -> a.ptr = b.ptr
      [] OTHER -> FALSE


(***************************************************************************)
(* impl Display for Value (value.rs).  An f64 with a zero fraction prints  *)
(* without a decimal point; otherwise the fraction is expanded by long     *)
(* division to at most MaxFracDigits digits.                               *)
(***************************************************************************)
RECURSIVE FracDigits(_, _, _)
FracDigits(r, den, k) ==
    IF r = 0 \/ k = 0 THEN ""
    ELSE ToString((r * 10) \div den) \o FracDigits((r * 10) % den, den, k - 1)

NumberDisplay(x) ==
    IF x.den = 0
    THEN (IF x.num = 0 THEN "NaN" ELSE IF x.num > 0 THEN "inf" ELSE "-inf")
    ELSE IF x.den = 1 THEN ToString(x.num)
    ELSE (IF x.num < 0 THEN "-" ELSE "")
         \o ToString(Abs(x.num) \div x.den) \o "."
         \o FracDigits(Abs(x.num) % x.den, x.den, MaxFracDigits)

ClockFunction == [kind |-> "ClockFunction"]
LoxFunction(name, parameters, body, closure) ==
    [kind |-> "LoxFunction", name |-> name, parameters |-> parameters,
     body |-> body, closure |-> closure]

Arity(callable) ==
    IF callable.kind = "ClockFunction" THEN 0 ELSE Len(callable.parameters)

AsStr(callable) ==
    IF callable.kind = "ClockFunction" THEN "<native fn " \o "clock" \o ">"
    ELSE "<fn " \o callable.name.lexeme \o ">"

ValueDisplay(fs, value) ==
    CASE value.kind = "Nil" -> "nil"
      [] value.kind = "Boolean" -> (IF value.b THEN "true" ELSE "false")
      [] value.kind = "String" -> value.s
      [] value.kind = "Number" -> NumberDisplay(value)
      [] value.kind = "Function" -> AsStr(fs[value.ptr])

(***************************************************************************)
(* Results: evaluate yields Ok(v) or Err; execute yields OkNone, OkSome(v) *)
(* (the early-return carrier) or Err.  NoRet: no callee has just returned. *)
(***************************************************************************)
NoRet == [tag |-> "NoRet"]
Ok(v) == [tag |-> "Ok", v |-> v]
OkNone == [tag |-> "OkNone"]
OkSome(v) == [tag |-> "OkSome", v |-> v]
Err(token, message) == [tag |-> "Err", token |-> token, message |-> message]

(***************************************************************************)
(* Environment / Inner (environment.rs).  fr is the store of Inner         *)
(* objects, id a handle; enclosing = 0 is Option::None.                    *)
(***************************************************************************)
InnerNew == [enclosing |-> 0, values |-> <<>>]
InnerEnclose(inner) == [enclosing |-> inner, values |-> <<>>]

Insert(values, name, value) ==
    [n \in (DOMAIN values) \cup {name} |-> IF n = name THEN value ELSE values[n]]

\* as InnerDefine, but writing into the enclosing frame when that frame has the name
InnerDefineReusesOuter(fr, id, name, value) ==
    IF fr[id].enclosing # 0 /\ name \in DOMAIN fr[fr[id].enclosing].values
    THEN [fr EXCEPT ![fr[id].enclosing].values = Insert(@, name, value)]
    ELSE [fr EXCEPT ![id].values = Insert(@, name, value)]

InnerDefine(fr, id, name, value) ==
    [fr EXCEPT ![id].values = Insert(@, name, value)]

\* as InnerAssign, but inserting into the starting frame without looking for the name
InnerAssignInserts(fr, id, name, value) ==
    [result |-> OkNone,
     frames |-> [fr EXCEPT ![id].values = Insert(@, name.lexeme, value)]]

RECURSIVE InnerAssign(_, _, _, _)
InnerAssign(fr, id, name, value) ==
    IF name.lexeme \in DOMAIN fr[id].values
    THEN [result |-> OkNone,
          frames |-> [fr EXCEPT ![id].values = Insert(@, name.lexeme, value)]]
    ELSE IF fr[id].enclosing # 0
    THEN InnerAssign(fr, fr[id].enclosing, name, value)
    ELSE [result |-> Err(name, "Undefined variable '" \o name.lexeme \o "'."),
          frames |-> fr]

\* as InnerGet, but asking the enclosing frames before the frame itself
RECURSIVE InnerGetOuterFirst(_, _, _)
InnerGetOuterFirst(fr, id, name) ==
    LET outer == IF fr[id].enclosing # 0
                 THEN InnerGetOuterFirst(fr, fr[id].enclosing, name)
                 ELSE Err(name, "Undefined variable '" \o name.lexeme \o "'.")
    IN IF outer.tag = "Ok" THEN outer
       ELSE IF name.lexeme \in DOMAIN fr[id].values
       THEN Ok(fr[id].values[name.lexeme])
       ELSE outer

RECURSIVE InnerGet(_, _, _)
InnerGet(fr, id, name) ==
    IF name.lexeme \in DOMAIN fr[id].values
    THEN Ok(fr[id].values[name.lexeme])
    ELSE IF fr[id].enclosing # 0
    THEN InnerGet(fr, fr[id].enclosing, name)
    ELSE Err(name, "Undefined variable '" \o name.lexeme \o "'.")

(***************************************************************************)
(* Interpreter helpers (interpreter.rs)                                    *)
(***************************************************************************)
\* as IsTruthy, but with the number 0 and the empty string falsy too
IsTruthyZeroFalsy(value) ==
    CASE value.kind = "Nil" -> FALSE
      [] value.kind = "Boolean" -> value.b
      [] value.kind = "Number" -> value.num # 0
      [] value.kind = "String" -> value.s # ""
      [] OTHER -> TRUE

IsTruthy(value) ==
    CASE value.kind = "Nil" -> FALSE
      [] value.kind = "Boolean" -> value.b
      [] OTHER -> TRUE

CheckNumberOperand(operator, operand) ==
    IF operand.kind = "Number" THEN Ok(operand)
    ELSE Err(operator, "Operand must be a number.")

CheckNumberOperands(operator, left, right) ==
    IF left.kind = "Number" /\ right.kind = "Number" THEN Ok(<<left, right>>)
    ELSE Err(operator, "Operands must be a number.")


(***************************************************************************)
(* Input programs, written as the trees the parser builds.                 *)
(***************************************************************************)
Id(lexeme) == Token("Identifier", lexeme, None, 1)
Paren == Token("RightParen", ")", None, 1)
OpPlus == Token("Plus", "+", None, 1)
OpMinus == Token("Minus", "-", None, 1)
OpStar == Token("Star", "*", None, 1)
OpSlash == Token("Slash", "/", None, 1)
OpBang == Token("Bang", "!", None, 1)
OpLess == Token("Less", "<", None, 1)
OpLessEqual == Token("LessEqual", "<=", None, 1)
OpGreater == Token("Greater", ">", None, 1)
OpGreaterEqual == Token("GreaterEqual", ">=", None, 1)
OpEqualEqual == Token("EqualEqual", "==", None, 1)
OpBangEqual == Token("BangEqual", "!=", None, 1)
OpOr == Token("Or", "or", None, 1)
OpAnd == Token("And", "and", None, 1)
KwReturn == Token("Return", "return", None, 1)

Var(n) == Variable(Id(n))
Num(n) == Literal(LitNumber(n))
Str(s) == Literal(LitString(s))
True == Literal(LitBoolean(TRUE))
False == Literal(LitBoolean(FALSE))
Set(n, e) == Assign(Id(n), e)
Add(a, b) == Binary(a, OpPlus, b)
CallOf(callee, arguments) == Call(callee, Paren, arguments)
Do(e) == StmtExpression(e)
Say(e) == StmtPrint(e)
Let(n, e) == StmtVariable(Id(n), e)
Fun(n, parameters, body) == StmtFunction(Id(n), parameters, body)
Give(e) == StmtReturn(KwReturn, e)

\* var x = 1; { var x = 2; print x; } print x;
ShadowProgram ==
    <<Let("x", Num(1)),
      StmtBlock(<<Let("x", Num(2)), Say(Var("x"))>>),
      Say(Var("x"))>>

\* var x = 1; { var x = 2; { x = 3; print x; } print x; } print x;
NearestProgram ==
    <<Let("x", Num(1)),
      StmtBlock(<<Let("x", Num(2)),
                  StmtBlock(<<Do(Set("x", Num(3))), Say(Var("x"))>>),
                  Say(Var("x"))>>),
      Say(Var("x"))>>

\* var x = 1; { var y = 2; { x = 3; y = 4; var x = 5; var x; print x; }
\*   print y; } print x;
DefineProgram ==
    <<Let("x", Num(1)),
      StmtBlock(<<Let("y", Num(2)),
                  StmtBlock(<<Do(Set("x", Num(3))), Do(Set("y", Num(4))),
                              Let("x", Num(5)), Let("x", None), Say(Var("x"))>>),
                  Say(Var("y"))>>),
      Say(Var("x"))>>

\* fun makeCounter() { var i = 0; fun c() { i = i + 1; return i; } return c; }
\* var c = makeCounter(); print c(); print c();
CounterProgram ==
    <<Fun("makeCounter", <<>>,
          <<Let("i", Num(0)),
            Fun("c", <<>>, <<Do(Set("i", Add(Var("i"), Num(1)))), Give(Var("i"))>>),
            Give(Var("c"))>>),
      Let("c", CallOf(Var("makeCounter"), <<>>)),
      Say(CallOf(Var("c"), <<>>)),
      Say(CallOf(Var("c"), <<>>))>>

\* var inc; var get;
\* { var i = 0; fun a() { i = i + 1; } fun b() { return i; } inc = a; get = b; }
\* inc(); print get(); inc(); print get();
SharedProgram ==
    <<Let("inc", None),
      Let("get", None),
      StmtBlock(<<Let("i", Num(0)),
                  Fun("a", <<>>, <<Do(Set("i", Add(Var("i"), Num(1))))>>),
                  Fun("b", <<>>, <<Give(Var("i"))>>),
                  Do(Set("inc", Var("a"))),
                  Do(Set("get", Var("b")))>>),
      Do(CallOf(Var("inc"), <<>>)),
      Say(CallOf(Var("get"), <<>>)),
      Do(CallOf(Var("inc"), <<>>)),
      Say(CallOf(Var("get"), <<>>))>>

\* var x = "global"; fun show(a) { print a; print x; print y; }
\* { var x = "local"; var y = "hidden"; show(x); }
LexicalProgram ==
    <<Let("x", Str("global")),
      Fun("show", <<Id("a")>>, <<Say(Var("a")), Say(Var("x")), Say(Var("y"))>>),
      StmtBlock(<<Let("x", Str("local")), Let("y", Str("hidden")),
                  Do(CallOf(Var("show"), <<Var("x")>>))>>)>>

\* fun f() { var n = 0; while (true) { n = n + 1;
\*     if (n == 2) { return n; } print "loop"; } print "after"; }
\* print f(); print "next";
ReturnProgram ==
    <<Fun("f", <<>>,
          <<Let("n", Num(0)),
            StmtWhile(True,
                StmtBlock(<<Do(Set("n", Add(Var("n"), Num(1)))),
                            StmtIf(Binary(Var("n"), OpEqualEqual, Num(2)),
                                   StmtBlock(<<Give(Var("n"))>>), None),
                            Say(Str("loop"))>>)),
            Say(Str("after"))>>),
      Say(CallOf(Var("f"), <<>>)),
      Say(Str("next"))>>

\* fun g() { if (false) print 0; else return; print "after"; }
\* fun h() { } print g(); print h();
BareReturnProgram ==
    <<Fun("g", <<>>, <<StmtIf(False, Say(Num(0)), Give(None)), Say(Str("after"))>>),
      Fun("h", <<>>, <<>>),
      Say(CallOf(Var("g"), <<>>)),
      Say(CallOf(Var("h"), <<>>))>>

\* var a = 0; true or (a = 1); print a; false and (a = 2); print a;
\* print nil or (a = 3); print a; print 1 and (a = 4); print a;
LogicalProgram ==
    <<Let("a", Num(0)),
      Do(Logical(True, OpOr, Grouping(Set("a", Num(1))))),
      Say(Var("a")),
      Do(Logical(False, OpAnd, Grouping(Set("a", Num(2))))),
      Say(Var("a")),
      Say(Logical(Literal(LitNil), OpOr, Grouping(Set("a", Num(3))))),
      Say(Logical(Num(1), OpAnd, Grouping(Set("a", Num(4))))),
      Say(Var("a"))>>

\* fun noisy() { print "called"; return 0; }
\* print "" or noisy(); print nil and noisy(); print false or noisy();
LogicalCallProgram ==
    <<Fun("noisy", <<>>, <<Say(Str("called")), Give(Num(0))>>),
      Say(Logical(Str(""), OpOr, CallOf(Var("noisy"), <<>>))),
      Say(Logical(Literal(LitNil), OpAnd, CallOf(Var("noisy"), <<>>))),
      Say(Logical(False, OpOr, CallOf(Var("noisy"), <<>>)))>>

\* var a = 1; { var b = 2; fun f() { { return -"x"; } } { f(); } } print "next";
DeepErrorProgram ==
    <<Let("a", Num(1)),
      StmtBlock(<<Let("b", Num(2)),
                  Fun("f", <<>>, <<StmtBlock(<<Give(Unary(OpMinus, Str("x")))>>)>>),
                  StmtBlock(<<Do(CallOf(Var("f"), <<>>))>>)>>),
      Say(Str("next"))>>

\* a = 1;
UndefinedAssignProgram == <<Do(Set("a", Num(1)))>>

\* { var b = 1; { c = 2; } }
UndefinedAssignInnerProgram ==
    <<StmtBlock(<<Let("b", Num(1)), StmtBlock(<<Do(Set("c", Num(2)))>>)>>)>>

\* print clock; var t = clock(); print t >= 0; print clock == clock;
ClockProgram ==
    <<Say(Var("clock")),
      Let("t", CallOf(Var("clock"), <<>>)),
      Say(Binary(Var("t"), OpGreaterEqual, Num(0))),
      Say(Binary(Var("clock"), OpEqualEqual, Var("clock")))>>

\* fun f(a, b) { return a; } print f; print f(1); 
ArityProgram ==
    <<Fun("f", <<Id("a"), Id("b")>>, <<Give(Var("a"))>>),
      Say(Var("f")),
      Say(CallOf(Var("f"), <<Num(1)>>))>>

\* fun mk() { fun g() {} return g; } var h = mk();
\* print h == h; print h == mk(); print mk() == mk(); print h != mk();
\* print h == clock; print h != h;
FunctionEqualityProgram ==
    <<Fun("mk", <<>>, <<Fun("g", <<>>, <<>>), Give(Var("g"))>>),
      Let("h", CallOf(Var("mk"), <<>>)),
      Say(Binary(Var("h"), OpEqualEqual, Var("h"))),
      Say(Binary(Var("h"), OpEqualEqual, CallOf(Var("mk"), <<>>))),
      Say(Binary(CallOf(Var("mk"), <<>>), OpEqualEqual, CallOf(Var("mk"), <<>>))),
      Say(Binary(Var("h"), OpBangEqual, CallOf(Var("mk"), <<>>))),
      Say(Binary(Var("h"), OpEqualEqual, Var("clock"))),
      Say(Binary(Var("h"), OpBangEqual, Var("h")))>>

\* print nil == nil; print nil == false; print 1 == "1";
\* print "ab" == "a" + "b"; print 1 == 2 / 2; print true != true;
ValueEqualityProgram ==
    <<Say(Binary(Literal(LitNil), OpEqualEqual, Literal(LitNil))),
      Say(Binary(Literal(LitNil), OpEqualEqual, False)),
      Say(Binary(Num(1), OpEqualEqual, Str("1"))),
      Say(Binary(Str("ab"), OpEqualEqual, Add(Str("a"), Str("b")))),
      Say(Binary(Num(1), OpEqualEqual, Binary(Num(2), OpSlash, Num(2)))),
      Say(Binary(True, OpBangEqual, True))>>

\* var x = 0 / 0; print x == x; print x != x; print 1 / 0 == 2 / 0;
NaNProgram ==
    <<Let("x", Binary(Num(0), OpSlash, Num(0))),
      Say(Binary(Var("x"), OpEqualEqual, Var("x"))),
      Say(Binary(Var("x"), OpBangEqual, Var("x"))),
      Say(Binary(Binary(Num(1), OpSlash, Num(0)), OpEqualEqual,
                 Binary(Num(2), OpSlash, Num(0))))>>

\* if (0) print "zero"; if ("") print "empty"; if (clock) print "function";
\* if (nil) print "nil"; else print "not nil"; if (false) print "false";
\* var c = ""; while (c) { print "loop"; c = nil; } while (false) print "never";
TruthyProgram ==
    <<StmtIf(Num(0), Say(Str("zero")), None),
      StmtIf(Str(""), Say(Str("empty")), None),
      StmtIf(Var("clock"), Say(Str("function")), None),
      StmtIf(Literal(LitNil), Say(Str("nil")), Say(Str("not nil"))),
      StmtIf(False, Say(Str("false")), None),
      Let("c", Str("")),
      StmtWhile(Var("c"), StmtBlock(<<Say(Str("loop")), Do(Set("c", Literal(LitNil)))>>)),
      StmtWhile(False, Say(Str("never")))>>

\* print !0; print !""; print !clock; print !nil; print !false; print !true;
NotProgram ==
    <<Say(Unary(OpBang, Num(0))),
      Say(Unary(OpBang, Str(""))),
      Say(Unary(OpBang, Var("clock"))),
      Say(Unary(OpBang, Literal(LitNil))),
      Say(Unary(OpBang, False)),
      Say(Unary(OpBang, True))>>

\* print 0 or 1; print "" or 1; print clock or 1; print 0 and 1;
\* print nil and 1; print false or "x";
LogicalTruthyProgram ==
    <<Say(Logical(Num(0), OpOr, Num(1))),
      Say(Logical(Str(""), OpOr, Num(1))),
      Say(Logical(Var("clock"), OpOr, Num(1))),
      Say(Logical(Num(0), OpAnd, Num(1))),
      Say(Logical(Literal(LitNil), OpAnd, Num(1))),
      Say(Logical(False, OpOr, Str("x")))>>

\* { var clock = 2; print clock; } print clock; clock = nil; print clock;
\* var clock = 1; print clock; fun clock() {} print clock;
ClockRedefineProgram ==
    <<StmtBlock(<<Let("clock", Num(2)), Say(Var("clock"))>>),
      Say(Var("clock")),
      Do(Set("clock", Literal(LitNil))),
      Say(Var("clock")),
      Let("clock", Num(1)),
      Say(Var("clock")),
      Fun("clock", <<>>, <<>>),
      Say(Var("clock"))>>

\* fun g(a) { print "body"; } g(1, 2);
ArityMoreProgram ==
    <<Fun("g", <<Id("a")>>, <<Say(Str("body"))>>),
      Do(CallOf(Var("g"), <<Num(1), Num(2)>>))>>

\* fun fib(n) { if (n < 2) return n; return fib(n - 1) + fib(n - 2); } print fib(3);
FibProgram ==
    <<Fun("fib", <<Id("n")>>,
          <<StmtIf(Binary(Var("n"), OpLess, Num(2)), Give(Var("n")), None),
            Give(Add(CallOf(Var("fib"), <<Binary(Var("n"), OpMinus, Num(1))>>),
                     CallOf(Var("fib"), <<Binary(Var("n"), OpMinus, Num(2))>>)))>>),
      Say(CallOf(Var("fib"), <<Num(3)>>))>>

\* print 1 + 2 * 3; print (1 - 4) / 2; print 1 / 0 > 7; print !(1 <= 1);
\* print "foo" + "bar"; print 1 != nil; print -(0 / 0 == 0 / 0);
ArithmeticProgram ==
    <<Say(Add(Num(1), Binary(Num(2), OpStar, Num(3)))),
      Say(Binary(Grouping(Binary(Num(1), OpMinus, Num(4))), OpSlash, Num(2))),
      Say(Binary(Binary(Num(1), OpSlash, Num(0)), OpGreater, Num(7))),
      Say(Unary(OpBang, Grouping(Binary(Num(1), OpLessEqual, Num(1))))),
      Say(Add(Str("foo"), Str("bar"))),
      Say(Binary(Num(1), OpBangEqual, Literal(LitNil))),
      Say(Unary(OpMinus, Grouping(Binary(Binary(Num(0), OpSlash, Num(0)), OpEqualEqual,
                                         Binary(Num(0), OpSlash, Num(0))))))>>

\* var i = 0; while (i < 2) i = i + 1; print i; while (i < 4) { i = i + 1; } print i;
WhileProgram ==
    <<Let("i", Num(0)),
      StmtWhile(Binary(Var("i"), OpLess, Num(2)), Do(Set("i", Add(Var("i"), Num(1))))),
      Say(Var("i")),
      StmtWhile(Binary(Var("i"), OpLess, Num(4)),
                StmtBlock(<<Do(Set("i", Add(Var("i"), Num(1))))>>)),
      Say(Var("i"))>>

\* { print "a"; } fun f() { { return 1; } } { print f(); { print u; } }
ExitPathsProgram ==
    <<StmtBlock(<<Say(Str("a"))>>),
      Fun("f", <<>>, <<StmtBlock(<<Give(Num(1))>>)>>),
      StmtBlock(<<Say(CallOf(Var("f"), <<>>)), StmtBlock(<<Say(Var("u"))>>)>>)>>

\* var a = 0; fun f(x, y) { print x; print y; }
\* f(a = a + 1, a = a * 10); "text"(a = 5);
CallOrderProgram ==
    <<Let("a", Num(0)),
      Fun("f", <<Id("x"), Id("y")>>, <<Say(Var("x")), Say(Var("y"))>>),
      Do(CallOf(Var("f"), <<Set("a", Add(Var("a"), Num(1))),
                            Set("a", Binary(Var("a"), OpStar, Num(10)))>>)),
      Do(CallOf(Str("text"), <<Set("a", Num(5))>>))>>

\* one program for each place where a runtime error passes through a handler
ErrorPrograms ==
    {<<StmtIf(Var("u"), Say(Num(1)), None)>>,
     <<StmtIf(True, Say(Var("u")), None)>>,
     <<StmtIf(False, Say(Num(1)), Say(Var("u")))>>,
     <<Let("z", Var("u"))>>,
     <<StmtWhile(Var("u"), Say(Num(1)))>>,
     <<StmtWhile(True, Do(Var("u")))>>,
     <<Do(Add(Var("u"), Num(1)))>>,
     <<Do(Add(Num(1), Var("u")))>>,
     <<Do(Add(Num(1), Str("a")))>>,
     <<Do(Binary(Num(1), OpLess, Str("a")))>>,
     <<Let("z", None), Do(Set("z", Var("u")))>>,
     <<Do(Logical(Var("u"), OpOr, Num(1)))>>,
     <<Do(Logical(False, OpOr, Var("u")))>>,
     <<Do(Grouping(Var("u")))>>,
     <<Do(Unary(OpBang, Var("u")))>>,
     <<Do(CallOf(Var("u"), <<>>))>>,
     <<Do(CallOf(Var("clock"), <<Var("u")>>))>>,
     <<Do(CallOf(Var("clock"), <<Num(1)>>))>>,
     <<Do(CallOf(Str("text"), <<Num(1)>>))>>,
     <<Give(Var("u"))>>,
     <<Give(Num(1)), Say(Str("next"))>>,
     <<StmtWhile(True, Give(None)), Say(Str("next"))>>,
     <<Fun("f", <<>>, <<Do(CallOf(Var("f"), <<>>))>>), Do(CallOf(Var("f"), <<>>))>>,
     <<StmtWhile(True, Say(Str("again")))>>}

ScenarioPrograms ==
    {ShadowProgram, NearestProgram, DefineProgram, CounterProgram, SharedProgram,
     LexicalProgram, ReturnProgram, BareReturnProgram, LogicalProgram,
     LogicalCallProgram, DeepErrorProgram, UndefinedAssignProgram,
     UndefinedAssignInnerProgram, ClockProgram, ArityProgram, FibProgram,
     ArithmeticProgram, WhileProgram, ExitPathsProgram, CallOrderProgram,
     ArityMoreProgram, FunctionEqualityProgram, ValueEqualityProgram, NaNProgram,
     TruthyProgram, NotProgram, LogicalTruthyProgram, ClockRedefineProgram}

\* top-level statements that programs are assembled from
Pool ==
    {Let("x", Num(1)),
     Let("x", None),
     Do(Set("x", Add(Var("x"), Num(1)))),
     Say(Var("x")),
     StmtBlock(<<Let("x", Str("in")), Do(Set("x", Add(Var("x"), Str("!")))),
                 Say(Var("x"))>>),
     StmtBlock(<<Do(Set("x", Num(7))), Let("y", Var("x")), Say(Var("y"))>>),
     Fun("f", <<Id("x")>>,
         <<StmtIf(Var("x"), StmtBlock(<<Give(Unary(OpMinus, Var("x")))>>), None),
           Do(Set("x", Num(9)))>>),
     Say(CallOf(Var("f"), <<Var("x")>>)),
     Fun("f", <<Id("a")>>, <<Do(Set("x", Var("a")))>>),
     StmtBlock(<<Let("x", Num(3)), Do(CallOf(Var("f"), <<Str("s")>>)), Say(Var("x"))>>)}

RECURSIVE SeqsUpTo(_, _)
SeqsUpTo(S, n) ==
    IF n = 0 THEN {<<>>}
    ELSE LET shorter == SeqsUpTo(S, n - 1)
         IN shorter \cup {Append(p, st) : p \in shorter, st \in S}

Programs == ScenarioPrograms \cup ErrorPrograms \cup SeqsUpTo(Pool, MaxProgLen)

(***************************************************************************)
(* The Rust call stack.  An activation record holds the method (fn), its   *)
(* argument (node), the point reached in its body (pc) and its locals:     *)
(* idx (loop position), vals (values computed so far), env (the            *)
(* Environment argument of execute_block), previous (execute_block's saved *)
(* frame).  `entered` is a history field: the current frame at the moment  *)
(* the method was invoked.                                                 *)
(***************************************************************************)
Top == stack[Len(stack)]

Act(fn, node) ==
    [fn |-> fn, node |-> node, pc |-> 0, idx |-> 1, vals |-> <<>>,
     env |-> 0, previous |-> 0, entered |-> environment]

Statements(statements) == [type |-> "Statements", statements |-> statements]
Callable(callable, token) ==
    [type |-> "Callable", callable |-> callable, token |-> token]

At(fn, type, pc) ==
    /\ stack # <<>>
    /\ Top.fn = fn
    /\ Top.node.type = type
    /\ Top.pc = pc

\* return to the caller with result r
Return(r) ==
    /\ stack' = SubSeq(stack, 1, Len(stack) - 1)
    /\ ret' = r

\* call a method: the caller is left at `caller`, the callee starts
Invoke(caller, callee) ==
    /\ Len(stack) < MaxDepth
    /\ stack' = Append([stack EXCEPT ![Len(stack)] = caller], callee)
    /\ ret' = NoRet

\* the method goes on at `caller` without calling
Continue(caller) ==
    /\ stack' = [stack EXCEPT ![Len(stack)] = caller]
    /\ ret' = NoRet

EnvUnchanged == UNCHANGED <<main, scanner, errors, program, frames, funcs, globals, environment, output>>

\* as Init, but with an empty globals frame
InitWithoutClock ==
    /\ main = [command |-> "run", file_contents |-> "", pc |-> "interpret", exit_code |-> None]
    /\ scanner = ScannerNew("")
    /\ errors = <<>>
    /\ program \in Programs
    /\ frames = <<InnerNew>>
    /\ funcs = <<ClockFunction>>
    /\ globals = 1
    /\ environment = 1
    /\ stack = <<[fn |-> "interpret", node |-> None, pc |-> 0, idx |-> 1,
                  vals |-> <<>>, env |-> 0, previous |-> 0, entered |-> 1]>>
    /\ ret = NoRet
    /\ output = <<>>

Init ==
    /\ main = [command |-> "run", file_contents |-> "", pc |-> "interpret", exit_code |-> None]
    /\ scanner = ScannerNew("")
    /\ errors = <<>>
    /\ program \in Programs
    /\ frames = InnerDefine(<<InnerNew>>, 1, "clock", Function(1))
    /\ funcs = <<ClockFunction>>
    /\ globals = 1
    /\ environment = 1
    /\ stack = <<[fn |-> "interpret", node |-> None, pc |-> 0, idx |-> 1,
                  vals |-> <<>>, env |-> 0, previous |-> 0, entered |-> 1]>>
    /\ ret = NoRet
    /\ output = <<>>

(***************************************************************************)
(* Interpreter::interpret                                                  *)
(***************************************************************************)
\* as Interpret, but a return carrier ends interpret
InterpretStopsOnReturn ==
    /\ \/ /\ At("interpret", "None", 0)
          /\ Top.idx <= Len(program)
          /\ Invoke([Top EXCEPT !.pc = 1], Act("execute", program[Top.idx]))
       \/ /\ At("interpret", "None", 1)
          /\ ret.tag = "OkNone"
          /\ Continue([Top EXCEPT !.pc = 0, !.idx = @ + 1])
       \/ /\ At("interpret", "None", 1)
          /\ ret.tag \in {"Err", "OkSome"}
          /\ Return(ret)
       \/ /\ At("interpret", "None", 0)
          /\ Top.idx > Len(program)
          /\ Return(OkNone)
    /\ EnvUnchanged

Interpret ==
    /\ \/ /\ At("interpret", "None", 0)
          /\ Top.idx <= Len(program)
          /\ Invoke([Top EXCEPT !.pc = 1], Act("execute", program[Top.idx]))
       \/ /\ At("interpret", "None", 1)
          /\ ret.tag # "Err"
          /\ Continue([Top EXCEPT !.pc = 0, !.idx = @ + 1])
       \/ /\ At("interpret", "None", 1)
          /\ ret.tag = "Err"
          /\ Return(ret)
       \/ /\ At("interpret", "None", 0)
          /\ Top.idx > Len(program)
          /\ Return(OkNone)
    /\ EnvUnchanged

(***************************************************************************)
(* Interpreter::execute, one action per arm of the match                   *)
(***************************************************************************)
ExecuteExpression ==
    /\ \/ /\ At("execute", "Expression", 0)
          /\ Invoke([Top EXCEPT !.pc = 1], Act("evaluate", Top.node.expression))
       \/ /\ At("execute", "Expression", 1)
          /\ Return(IF ret.tag = "Err" THEN ret ELSE OkNone)
    /\ EnvUnchanged

ExecuteFunction ==
    /\ At("execute", "Function", 0)
    /\ LET function == LoxFunction(Top.node.name, Top.node.parameters,
                                   Top.node.body, environment)
       IN /\ funcs' = Append(funcs, function)
          /\ frames' = InnerDefine(frames, environment, function.name.lexeme,
                                   Function(Len(funcs) + 1))
    /\ Return(OkNone)
    /\ UNCHANGED <<main, scanner, errors, program, globals, environment, output>>

ExecuteIf ==
    /\ \/ /\ At("execute", "If", 0)
          /\ Invoke([Top EXCEPT !.pc = 1], Act("evaluate", Top.node.condition))
       \/ /\ At("execute", "If", 1)
          /\ ret.tag = "Err"
          /\ Return(ret)
       \/ /\ At("execute", "If", 1)
          /\ ret.tag = "Ok"
          /\ IsTruthy(ret.v)
          /\ Invoke([Top EXCEPT !.pc = 2], Act("execute", Top.node.then_branch))
       \/ /\ At("execute", "If", 1)
          /\ ret.tag = "Ok"
          /\ ~IsTruthy(ret.v)
          /\ Top.node.else_branch # None
          /\ Invoke([Top EXCEPT !.pc = 2], Act("execute", Top.node.else_branch))
       \/ /\ At("execute", "If", 1)
          /\ ret.tag = "Ok"
          /\ ~IsTruthy(ret.v)
          /\ Top.node.else_branch = None
          /\ Return(OkNone)
       \/ /\ At("execute", "If", 2)
          /\ Return(ret)
    /\ EnvUnchanged

ExecutePrint ==
    \/ /\ At("execute", "Print", 0)
       /\ Invoke([Top EXCEPT !.pc = 1], Act("evaluate", Top.node.expression))
       /\ EnvUnchanged
    \/ /\ At("execute", "Print", 1)
       /\ ret.tag = "Err"
       /\ Return(ret)
       /\ EnvUnchanged
    \/ /\ At("execute", "Print", 1)
       /\ ret.tag = "Ok"
       /\ Len(output) < MaxOutput
       /\ output' = Append(output, ValueDisplay(funcs, ret.v))
       /\ Return(OkNone)
       /\ UNCHANGED <<main, scanner, errors, program, frames, funcs, globals, environment>>

ExecuteVariable ==
    \/ /\ At("execute", "Variable", 0)
       /\ Top.node.initializer # None
       /\ Invoke([Top EXCEPT !.pc = 1], Act("evaluate", Top.node.initializer))
       /\ EnvUnchanged
    \/ /\ At("execute", "Variable", 1)
       /\ ret.tag = "Err"
       /\ Return(ret)
       /\ EnvUnchanged
    \/ /\ \/ At("execute", "Variable", 0) /\ Top.node.initializer = None
          \/ At("execute", "Variable", 1) /\ ret.tag = "Ok"
       /\ LET value == IF Top.pc = 0 THEN Nil ELSE ret.v
          IN frames' = InnerDefine(frames, environment, Top.node.name.lexeme, value)
       /\ Return(OkNone)
       /\ UNCHANGED <<main, scanner, errors, program, funcs, globals, environment, output>>

ExecuteReturn ==
    /\ \/ /\ At("execute", "Return", 0)
          /\ Top.node.value # None
          /\ Invoke([Top EXCEPT !.pc = 1], Act("evaluate", Top.node.value))
       \/ /\ At("execute", "Return", 1)
          /\ Return(IF ret.tag = "Err" THEN ret ELSE OkSome(ret.v))
       \/ /\ At("execute", "Return", 0)
          /\ Top.node.value = None
          /\ Return(OkSome(Nil))
    /\ EnvUnchanged

ExecuteWhile ==
    /\ \/ /\ At("execute", "While", 0)
          /\ Invoke([Top EXCEPT !.pc = 1], Act("evaluate", Top.node.condition))
       \/ /\ At("execute", "While", 1)
          /\ ret.tag = "Err"
          /\ Return(ret)
       \/ /\ At("execute", "While", 1)
          /\ ret.tag = "Ok"
          /\ ~IsTruthy(ret.v)
          /\ Return(OkNone)
       \/ /\ At("execute", "While", 1)
          /\ ret.tag = "Ok"
          /\ IsTruthy(ret.v)
          /\ Invoke([Top EXCEPT !.pc = 2], Act("execute", Top.node.body))
       \/ /\ At("execute", "While", 2)
          /\ ret.tag \in {"Err", "OkSome"}
          /\ Return(ret)
       \/ /\ At("execute", "While", 2)
          /\ ret.tag = "OkNone"
          /\ Continue([Top EXCEPT !.pc = 0])
    /\ EnvUnchanged

ExecuteBlockStmt ==
    \/ /\ At("execute", "Block", 0)
       /\ Len(frames) < MaxFrames
       /\ frames' = Append(frames, InnerEnclose(environment))
       /\ Invoke([Top EXCEPT !.pc = 1],
                 [Act("execute_block", Statements(Top.node.statements))
                     EXCEPT !.env = Len(frames) + 1])
       /\ UNCHANGED <<main, scanner, errors, program, funcs, globals, environment, output>>
    \/ /\ At("execute", "Block", 1)
       /\ Return(ret)
       /\ EnvUnchanged

(***************************************************************************)
(* Interpreter::execute_block                                              *)
(***************************************************************************)
\* as ExecuteBlockEnter, but saving the frame after it was replaced
ExecuteBlockEnterSavesNew ==
    /\ At("execute_block", "Statements", 0)
    /\ environment' = Top.env
    /\ Continue([Top EXCEPT !.pc = 1, !.previous = Top.env])
    /\ UNCHANGED <<main, scanner, errors, program, frames, funcs, globals, output>>

\* lines 136-137: save the current frame, install the new one
ExecuteBlockEnter ==
    /\ At("execute_block", "Statements", 0)
    /\ environment' = Top.env
    /\ Continue([Top EXCEPT !.pc = 1, !.previous = environment])
    /\ UNCHANGED <<main, scanner, errors, program, frames, funcs, globals, output>>

\* lines 139-140: the next statement of the block
ExecuteBlockNext ==
    /\ At("execute_block", "Statements", 1)
    /\ Top.idx <= Len(Top.node.statements)
    /\ Invoke([Top EXCEPT !.pc = 2], Act("execute", Top.node.statements[Top.idx]))
    /\ EnvUnchanged

\* line 149: Ok(None), go on with the loop
ExecuteBlockOkNone ==
    /\ At("execute_block", "Statements", 2)
    /\ ret.tag = "OkNone"
    /\ Continue([Top EXCEPT !.pc = 1, !.idx = @ + 1])
    /\ EnvUnchanged

\* as ExecuteBlockErr, but leaving the block's frame installed
ExecuteBlockErrKeepsFrame ==
    /\ At("execute_block", "Statements", 2)
    /\ ret.tag = "Err"
    /\ Return(ret)
    /\ UNCHANGED <<main, scanner, errors, program, frames, funcs, globals, environment, output>>

\* lines 141-144: a statement failed
ExecuteBlockErr ==
    /\ At("execute_block", "Statements", 2)
    /\ ret.tag = "Err"
    /\ environment' = Top.previous
    /\ Return(ret)
    /\ UNCHANGED <<main, scanner, errors, program, frames, funcs, globals, output>>

\* as ExecuteBlockOkSome, but leaving the block's frame installed
ExecuteBlockOkSomeKeepsFrame ==
    /\ At("execute_block", "Statements", 2)
    /\ ret.tag = "OkSome"
    /\ Return(ret)
    /\ UNCHANGED <<main, scanner, errors, program, frames, funcs, globals, environment, output>>

\* as ExecuteBlockOkSome, but dropping the carrier and going on with the block
ExecuteBlockOkSomeContinues ==
    /\ At("execute_block", "Statements", 2)
    /\ ret.tag = "OkSome"
    /\ Continue([Top EXCEPT !.pc = 1, !.idx = @ + 1])
    /\ EnvUnchanged

\* lines 145-148: a statement yielded a return carrier
ExecuteBlockOkSome ==
    /\ At("execute_block", "Statements", 2)
    /\ ret.tag = "OkSome"
    /\ environment' = Top.previous
    /\ Return(ret)
    /\ UNCHANGED <<main, scanner, errors, program, frames, funcs, globals, output>>

\* lines 153-154: all statements done
ExecuteBlockEnd ==
    /\ At("execute_block", "Statements", 1)
    /\ Top.idx > Len(Top.node.statements)
    /\ environment' = Top.previous
    /\ Return(OkNone)
    /\ UNCHANGED <<main, scanner, errors, program, frames, funcs, globals, output>>

ExecuteBlock ==
    \/ ExecuteBlockEnter
    \/ ExecuteBlockNext
    \/ ExecuteBlockOkNone
    \/ ExecuteBlockErr
    \/ ExecuteBlockOkSome
    \/ ExecuteBlockEnd


(***************************************************************************)
(* Interpreter::evaluate, one action per arm of the match                  *)
(***************************************************************************)
EvaluateLiteral ==
    /\ At("evaluate", "Literal", 0)
    /\ Return(Ok(ValueFromLiteral(Top.node.value)))
    /\ EnvUnchanged

EvaluateGrouping ==
    /\ \/ /\ At("evaluate", "Grouping", 0)
          /\ Invoke([Top EXCEPT !.pc = 1], Act("evaluate", Top.node.child))
       \/ /\ At("evaluate", "Grouping", 1)
          /\ Return(ret)
    /\ EnvUnchanged

\* interpreter.rs lines 164-170
UnaryOp(operator, right_child) ==
    CASE operator.token_type = "Bang" -> Ok(Boolean(~IsTruthy(right_child)))
      [] operator.token_type = "Minus" ->
           LET checked == CheckNumberOperand(operator, right_child)
           IN IF checked.tag = "Err" THEN checked ELSE Ok(NumNeg(checked.v))

EvaluateUnary ==
    /\ \/ /\ At("evaluate", "Unary", 0)
          /\ Invoke([Top EXCEPT !.pc = 1], Act("evaluate", Top.node.right))
       \/ /\ At("evaluate", "Unary", 1)
          /\ Return(IF ret.tag = "Err" THEN ret ELSE UnaryOp(Top.node.operator, ret.v))
    /\ EnvUnchanged

\* interpreter.rs lines 180-243
BinaryOp(operator, left_child, right_child) ==
    LET checked == CheckNumberOperands(operator, left_child, right_child)
        x == checked.v[1]
        y == checked.v[2]
        t == operator.token_type
    IN CASE t = "Slash" -> IF checked.tag = "Err" THEN checked ELSE Ok(NumDiv(x, y))
         [] t = "Star" -> IF checked.tag = "Err" THEN checked ELSE Ok(NumMul(x, y))
         [] t = "Minus" -> IF checked.tag = "Err" THEN checked ELSE Ok(NumSub(x, y))
         [] t = "Plus" ->
              IF left_child.kind = "Number" /\ right_child.kind = "Number"
              THEN Ok(NumAdd(left_child, right_child))
              ELSE IF left_child.kind = "String" /\ right_child.kind = "String"
              THEN Ok(String(left_child.s \o right_child.s))
              ELSE Err(operator, "Operands must be two numbers or two strings.")
         [] t = "Greater" ->
              IF checked.tag = "Err" THEN checked ELSE Ok(Boolean(NumLess(y, x)))
         [] t = "GreaterEqual" ->
              IF checked.tag = "Err" THEN checked
              ELSE Ok(Boolean(NumLess(y, x) \/ NumEq(x, y)))
         [] t = "Less" ->
              IF checked.tag = "Err" THEN checked ELSE Ok(Boolean(NumLess(x, y)))
         [] t = "LessEqual" ->
              IF checked.tag = "Err" THEN checked
              ELSE Ok(Boolean(NumLess(x, y) \/ NumEq(x, y)))
         [] t = "BangEqual" -> Ok(Boolean(~ValueEq(left_child, right_child)))
         [] t = "EqualEqual" -> Ok(Boolean(ValueEq(left_child, right_child)))

\* as EvaluateBinary, but the operands are checked as soon as the left one
\* is known: a left operand that fails the check ends the evaluation before
\* the right operand is evaluated
EvaluateBinaryChecksLeftFirst ==
    /\ \/ /\ At("evaluate", "Binary", 0)
          /\ Invoke([Top EXCEPT !.pc = 1], Act("evaluate", Top.node.left))
       \/ /\ At("evaluate", "Binary", 1)
          /\ ret.tag = "Err"
          /\ Return(ret)
       \/ /\ At("evaluate", "Binary", 1)
          /\ ret.tag = "Ok"
          /\ BinaryOp(Top.node.operator, ret.v, ret.v).tag = "Err"
          /\ Return(BinaryOp(Top.node.operator, ret.v, ret.v))
       \/ /\ At("evaluate", "Binary", 1)
          /\ ret.tag = "Ok"
          /\ BinaryOp(Top.node.operator, ret.v, ret.v).tag = "Ok"
          /\ Invoke([Top EXCEPT !.pc = 2, !.vals = <<ret.v>>],
                    Act("evaluate", Top.node.right))
       \/ /\ At("evaluate", "Binary", 2)
          /\ Return(IF ret.tag = "Err" THEN ret
                    ELSE BinaryOp(Top.node.operator, Top.vals[1], ret.v))
    /\ EnvUnchanged

EvaluateBinary ==
    /\ \/ /\ At("evaluate", "Binary", 0)
          /\ Invoke([Top EXCEPT !.pc = 1], Act("evaluate", Top.node.left))
       \/ /\ At("evaluate", "Binary", 1)
          /\ ret.tag = "Err"
          /\ Return(ret)
       \/ /\ At("evaluate", "Binary", 1)
          /\ ret.tag = "Ok"
          /\ Invoke([Top EXCEPT !.pc = 2, !.vals = <<ret.v>>],
                    Act("evaluate", Top.node.right))
       \/ /\ At("evaluate", "Binary", 2)
          /\ Return(IF ret.tag = "Err" THEN ret
                    ELSE BinaryOp(Top.node.operator, Top.vals[1], ret.v))
    /\ EnvUnchanged

EvaluateVariable ==
    /\ At("evaluate", "Variable", 0)
    /\ Return(InnerGet(frames, environment, Top.node.name))
    /\ EnvUnchanged

EvaluateAssign ==
    \/ /\ At("evaluate", "Assign", 0)
       /\ Invoke([Top EXCEPT !.pc = 1], Act("evaluate", Top.node.right))
       /\ EnvUnchanged
    \/ /\ At("evaluate", "Assign", 1)
       /\ ret.tag = "Err"
       /\ Return(ret)
       /\ EnvUnchanged
    \/ /\ At("evaluate", "Assign", 1)
       /\ ret.tag = "Ok"
       /\ LET assigned == InnerAssign(frames, environment, Top.node.name, ret.v)
          IN /\ frames' = assigned.frames
             /\ Return(IF assigned.result.tag = "Err" THEN assigned.result ELSE Ok(ret.v))
       /\ UNCHANGED <<main, scanner, errors, program, funcs, globals, environment, output>>

\* as ShortCircuit, but treating `and` like `or`
ShortCircuitIgnoresOperator(operator, left_value) == IsTruthy(left_value)

\* interpreter.rs lines 261-279: TRUE when the right operand is not evaluated
ShortCircuit(operator, left_value) ==
    CASE operator.token_type = "Or" -> IsTruthy(left_value)
      [] operator.token_type = "And" -> ~IsTruthy(left_value)

EvaluateLogical ==
    /\ \/ /\ At("evaluate", "Logical", 0)
          /\ Invoke([Top EXCEPT !.pc = 1], Act("evaluate", Top.node.left))
       \/ /\ At("evaluate", "Logical", 1)
          /\ ret.tag = "Err"
          /\ Return(ret)
       \/ /\ At("evaluate", "Logical", 1)
          /\ ret.tag = "Ok"
          /\ ShortCircuit(Top.node.operator, ret.v)
          /\ Return(Ok(ret.v))
       \/ /\ At("evaluate", "Logical", 1)
          /\ ret.tag = "Ok"
          /\ ~ShortCircuit(Top.node.operator, ret.v)
          /\ Invoke([Top EXCEPT !.pc = 2], Act("evaluate", Top.node.right))
       \/ /\ At("evaluate", "Logical", 2)
          /\ Return(ret)
    /\ EnvUnchanged

\* as EvaluateCallDispatch, but calling whatever the number of arguments is
EvaluateCallDispatchAnyArity ==
    LET callee_value == Top.vals[1]
        arguments_values == SubSeq(Top.vals, 2, Len(Top.vals))
        callable == funcs[callee_value.ptr]
    IN IF callee_value.kind = "Function"
       THEN Invoke([Top EXCEPT !.pc = 4],
                   [Act("call", Callable(callable, Top.node.parenthesis))
                       EXCEPT !.vals = arguments_values])
       ELSE Return(Err(Top.node.parenthesis, "Can only call functions and classes."))

\* interpreter.rs lines 294-316: vals = <<callee_value>> \o arguments_values
EvaluateCallDispatch ==
    LET callee_value == Top.vals[1]
        arguments_values == SubSeq(Top.vals, 2, Len(Top.vals))
        callable == funcs[callee_value.ptr]
        arity == Arity(callable)
    IN IF callee_value.kind = "Function"
       THEN IF Len(arguments_values) # arity
            THEN Return(Err(Top.node.parenthesis,
                            "Expected " \o ToString(arity) \o " arguments but got "
                            \o ToString(Len(arguments_values)) \o "."))
            ELSE Invoke([Top EXCEPT !.pc = 4],
                        [Act("call", Callable(callable, Top.node.parenthesis))
                            EXCEPT !.vals = arguments_values])
       ELSE Return(Err(Top.node.parenthesis, "Can only call functions and classes."))

\* as EvaluateCall, but refusing a callee that is not a function before the
\* arguments are evaluated
EvaluateCallChecksCalleeFirst ==
    /\ \/ /\ At("evaluate", "Call", 0)
          /\ Invoke([Top EXCEPT !.pc = 1], Act("evaluate", Top.node.callee))
       \/ /\ At("evaluate", "Call", 1)
          /\ ret.tag = "Err"
          /\ Return(ret)
       \/ /\ At("evaluate", "Call", 1)
          /\ ret.tag = "Ok"
          /\ IF ret.v.kind = "Function"
             THEN Continue([Top EXCEPT !.pc = 2, !.vals = <<ret.v>>])
             ELSE Return(Err(Top.node.parenthesis, "Can only call functions and classes."))
       \/ /\ At("evaluate", "Call", 2)
          /\ Top.idx <= Len(Top.node.arguments)
          /\ Invoke([Top EXCEPT !.pc = 3], Act("evaluate", Top.node.arguments[Top.idx]))
       \/ /\ At("evaluate", "Call", 3)
          /\ ret.tag = "Err"
          /\ Return(ret)
       \/ /\ At("evaluate", "Call", 3)
          /\ ret.tag = "Ok"
          /\ Continue([Top EXCEPT !.pc = 2, !.idx = @ + 1, !.vals = Append(@, ret.v)])
       \/ /\ At("evaluate", "Call", 2)
          /\ Top.idx > Len(Top.node.arguments)
          /\ EvaluateCallDispatch
       \/ /\ At("evaluate", "Call", 4)
          /\ Return(CASE ret.tag = "Err" -> ret
                      [] ret.tag = "OkSome" -> Ok(ret.v)
                      [] ret.tag = "OkNone" -> Ok(Nil))
    /\ EnvUnchanged

EvaluateCall ==
    /\ \/ /\ At("evaluate", "Call", 0)
          /\ Invoke([Top EXCEPT !.pc = 1], Act("evaluate", Top.node.callee))
       \/ /\ At("evaluate", "Call", 1)
          /\ ret.tag = "Err"
          /\ Return(ret)
       \/ /\ At("evaluate", "Call", 1)
          /\ ret.tag = "Ok"
          /\ Continue([Top EXCEPT !.pc = 2, !.vals = <<ret.v>>])
       \/ /\ At("evaluate", "Call", 2)
          /\ Top.idx <= Len(Top.node.arguments)
          /\ Invoke([Top EXCEPT !.pc = 3], Act("evaluate", Top.node.arguments[Top.idx]))
       \/ /\ At("evaluate", "Call", 3)
          /\ ret.tag = "Err"
          /\ Return(ret)
       \/ /\ At("evaluate", "Call", 3)
          /\ ret.tag = "Ok"
          /\ Continue([Top EXCEPT !.pc = 2, !.idx = @ + 1, !.vals = Append(@, ret.v)])
       \/ /\ At("evaluate", "Call", 2)
          /\ Top.idx > Len(Top.node.arguments)
          /\ EvaluateCallDispatch
       \/ /\ At("evaluate", "Call", 4)
          /\ Return(CASE ret.tag = "Err" -> ret
                      [] ret.tag = "OkSome" -> Ok(ret.v)
                      [] ret.tag = "OkNone" -> Ok(Nil))
    /\ EnvUnchanged

(***************************************************************************)
(* impl Callable for LoxFunction / ClockFunction (function.rs)             *)
(***************************************************************************)
RECURSIVE DefineParameters(_, _, _, _)
DefineParameters(values, parameters, arguments, i) ==
    IF i > Len(parameters) \/ i > Len(arguments) THEN values
    ELSE DefineParameters(Insert(values, parameters[i].lexeme, arguments[i]),
                          parameters, arguments, i + 1)

\* as CallFrame, but the body runs over a copy of the closure frame's bindings
CallFrameCopiesClosure(function, arguments) ==
    [enclosing |-> frames[function.closure].enclosing,
     values |-> DefineParameters(frames[function.closure].values,
                                 function.parameters, arguments, 1)]

\* as CallFrame, but enclosed by the caller's current frame
CallFrameEnclosesCaller(function, arguments) ==
    [enclosing |-> environment,
     values |-> DefineParameters(<<>>, function.parameters, arguments, 1)]

\* function.rs lines 39-43: the frame the body runs in
CallFrame(function, arguments) ==
    [enclosing |-> function.closure,
     values |-> DefineParameters(<<>>, function.parameters, arguments, 1)]

LoxFunctionCall ==
    \/ /\ At("call", "Callable", 0)
       /\ Top.node.callable.kind = "LoxFunction"
       /\ Len(frames) < MaxFrames
       /\ frames' = Append(frames, CallFrame(Top.node.callable, Top.vals))
       /\ Invoke([Top EXCEPT !.pc = 1],
                 [Act("execute_block", Statements(Top.node.callable.body))
                     EXCEPT !.env = Len(frames) + 1])
       /\ UNCHANGED <<main, scanner, errors, program, funcs, globals, environment, output>>
    \/ /\ At("call", "Callable", 1)
       /\ Return(ret)
       /\ EnvUnchanged

ClockSeconds == {0, 1}

ClockFunctionCall ==
    /\ At("call", "Callable", 0)
    /\ Top.node.callable.kind = "ClockFunction"
    /\ \/ \E secs \in ClockSeconds : Return(OkSome(Number(secs, 1)))
       \/ Return(Err(Top.node.token,
                     "SystemTime error: second time provided was later than self"))
    /\ EnvUnchanged

Next ==
    \/ Interpret
    \/ ExecuteExpression
    \/ ExecuteFunction
    \/ ExecuteIf
    \/ ExecutePrint
    \/ ExecuteVariable
    \/ ExecuteReturn
    \/ ExecuteWhile
    \/ ExecuteBlockStmt
    \/ ExecuteBlock
    \/ EvaluateLiteral
    \/ EvaluateGrouping
    \/ EvaluateUnary
    \/ EvaluateBinary
    \/ EvaluateVariable
    \/ EvaluateAssign
    \/ EvaluateLogical
    \/ EvaluateCall
    \/ LoxFunctionCall
    \/ ClockFunctionCall

Spec == Init /\ [][Next]_vars


(***************************************************************************)
(* Scanner::scan_tokens, run by main.  One action is one turn of its loop: *)
(* start = current, then scan_token, which reads one character and runs    *)
(* the arm of the match that the character selects.  Reported errors go to *)
(* `errors`, the lines of the standard error stream.                       *)
(***************************************************************************)
Scanning == main.pc = "scan" /\ ~ScannerIsAtEnd(scanner)

\* the character that advance() returns
Character == SubSeq(scanner.source, scanner.current + 1, scanner.current + 1)

\* the scanner after `start = current` and advance()
Advanced == [scanner EXCEPT !.start = scanner.current, !.current = @ + 1]

InterpreterUnchanged ==
    UNCHANGED <<program, frames, funcs, globals, environment, stack, ret, output>>

\* scanner.rs lines 226-233: the line written to standard error
ScannerReport(line, where_, message) ==
    "[line " \o ToString(line) \o "] Error" \o where_ \o ": " \o message

SingleCharacterTokens ==
    [c \in {"(", ")", "{", "}", ",", ".", "-", "+", ";", "*"} |->
        CASE c = "(" -> "LeftParen" [] c = ")" -> "RightParen"
          [] c = "{" -> "LeftBrace" [] c = "}" -> "RightBrace"
          [] c = "," -> "Comma" [] c = "." -> "Dot"
          [] c = "-" -> "Minus" [] c = "+" -> "Plus"
          [] c = ";" -> "Semicolon" [] c = "*" -> "Star"]

OperatorTokens ==
    [c \in {"=", "!", "<", ">"} |->
        CASE c = "=" -> <<"Equal", "EqualEqual">>
          [] c = "!" -> <<"Bang", "BangEqual">>
          [] c = "<" -> <<"Less", "LessEqual">>
          [] c = ">" -> <<"Greater", "GreaterEqual">>]

ScanSingleCharacter ==
    /\ Scanning
    /\ Character \in DOMAIN SingleCharacterTokens
    /\ scanner' = AddToken(Advanced, SingleCharacterTokens[Character], None)
    /\ UNCHANGED <<main, errors>>
    /\ InterpreterUnchanged

ScanOperator ==
    /\ Scanning
    /\ Character \in DOMAIN OperatorTokens
    /\ LET matched == ScannerMatch(Advanced, "=")
       IN scanner' = AddToken(matched,
                              IF matched.current # Advanced.current
                              THEN OperatorTokens[Character][2]
                              ELSE OperatorTokens[Character][1],
                              None)
    /\ UNCHANGED <<main, errors>>
    /\ InterpreterUnchanged

ScanSlash ==
    /\ Scanning
    /\ Character = "/"
    /\ LET matched == ScannerMatch(Advanced, "/")
       IN scanner' = IF matched.current # Advanced.current
                     THEN AdvanceNextLine(matched)
                     ELSE AddToken(matched, "Slash", None)
    /\ UNCHANGED <<main, errors>>
    /\ InterpreterUnchanged

\* as ScanWhitespace, but the character is left for the next step
ScanWhitespaceStays ==
    /\ Scanning
    /\ Character \in {" ", "\r", "\t"}
    /\ scanner' = [scanner EXCEPT !.start = scanner.current]
    /\ UNCHANGED <<main, errors>>
    /\ InterpreterUnchanged

ScanWhitespace ==
    /\ Scanning
    /\ Character \in {" ", "\r", "\t"}
    /\ scanner' = Advanced
    /\ UNCHANGED <<main, errors>>
    /\ InterpreterUnchanged

ScanNewline ==
    /\ Scanning
    /\ Character = "\n"
    /\ scanner' = [Advanced EXCEPT !.line = @ + 1]
    /\ UNCHANGED <<main, errors>>
    /\ InterpreterUnchanged

\* as ScanString, but the report names the line of the opening quote
ScanStringReportsOpeningLine ==
    /\ Scanning
    /\ Character = "\""
    /\ LET s == AdvanceString(Advanced)
           closed == ScannerAdvance(s)
           value == SubSeq(closed.source, closed.start + 2, closed.current - 1)
       IN IF ScannerIsAtEnd(s)
          THEN /\ scanner' = [s EXCEPT !.had_error = TRUE]
               /\ errors' = Append(errors,
                                   ScannerReport(scanner.line, "", "Unterminated string."))
          ELSE /\ scanner' = AddToken(closed, "String", LitString(value))
               /\ UNCHANGED errors
    /\ UNCHANGED main
    /\ InterpreterUnchanged

\* scanner.rs lines 155-180
ScanString ==
    /\ Scanning
    /\ Character = "\""
    /\ LET s == AdvanceString(Advanced)
           closed == ScannerAdvance(s)
           value == SubSeq(closed.source, closed.start + 2, closed.current - 1)
       IN IF ScannerIsAtEnd(s)
          THEN /\ scanner' = [s EXCEPT !.had_error = TRUE]
               /\ errors' = Append(errors, ScannerReport(s.line, "", "Unterminated string."))
          ELSE /\ scanner' = AddToken(closed, "String", LitString(value))
               /\ UNCHANGED errors
    /\ UNCHANGED main
    /\ InterpreterUnchanged

\* scanner.rs lines 182-198; a lexeme that str::parse does not accept makes
\* unwrap() panic, and the process ends with status 101
ScanNumber ==
    /\ Scanning
    /\ Character \notin DOMAIN SingleCharacterTokens \cup DOMAIN OperatorTokens
                     \cup {"/", " ", "\r", "\t", "\n", "\""}
    /\ IsNumber(Character)
    /\ LET whole == AdvanceNumber(Advanced)
           s == IF ScannerPeek(whole) = "." /\ IsNumber(ScannerPeekAt(whole, 1))
                THEN AdvanceNumber(ScannerAdvance(whole))
                ELSE whole
           value == ParseF64(ScannerText(s))
       IN IF value.tag = "Err"
          THEN /\ scanner' = s
               /\ main' = [main EXCEPT !.pc = "panic", !.exit_code = 101]
          ELSE /\ scanner' = AddToken(s, "Number",
                                      [kind |-> "Number", num |-> value.num,
                                       den |-> value.den])
               /\ UNCHANGED main
    /\ UNCHANGED errors
    /\ InterpreterUnchanged

\* scanner.rs lines 200-212
ScanIdentifier ==
    /\ Scanning
    /\ Character \notin DOMAIN SingleCharacterTokens \cup DOMAIN OperatorTokens
                     \cup {"/", " ", "\r", "\t", "\n", "\""}
    /\ ~IsNumber(Character)
    /\ IsAlphaOrNumber(Character)
    /\ LET s == AdvanceIdentifier(Advanced)
           text == ScannerText(s)
       IN scanner' = AddToken(s, IF text \in DOMAIN Keywords THEN Keywords[text]
                                 ELSE "Identifier", None)
    /\ UNCHANGED <<main, errors>>
    /\ InterpreterUnchanged

\* scanner.rs lines 104-106
ScanUnexpectedCharacter ==
    /\ Scanning
    /\ Character \notin DOMAIN SingleCharacterTokens \cup DOMAIN OperatorTokens
                     \cup {"/", " ", "\r", "\t", "\n", "\""}
    /\ ~IsNumber(Character)
    /\ ~IsAlphaOrNumber(Character)
    /\ scanner' = [Advanced EXCEPT !.had_error = TRUE]
    /\ errors' = Append(errors, ScannerReport(scanner.line, "",
                                              "Unexpected character: " \o Character))
    /\ UNCHANGED main
    /\ InterpreterUnchanged

\* scanner.rs lines 66-69: the loop has ended; scan_tokens appends the Eof
\* token and returns the tokens to main
ScanTokensReturn ==
    /\ main.pc = "scan"
    /\ ScannerIsAtEnd(scanner)
    /\ scanner' = [scanner EXCEPT !.tokens = Append(@, Token("Eof", "", None, scanner.line))]
    /\ main' = [main EXCEPT !.pc = "scanned"]
    /\ UNCHANGED errors
    /\ InterpreterUnchanged

ScanTokens ==
    \/ ScanSingleCharacter
    \/ ScanOperator
    \/ ScanSlash
    \/ ScanWhitespace
    \/ ScanNewline
    \/ ScanString
    \/ ScanNumber
    \/ ScanIdentifier
    \/ ScanUnexpectedCharacter
    \/ ScanTokensReturn

(***************************************************************************)
(* Parser (src/src/parser.rs), a recursive-descent parser.  A method of    *)
(* the Parser is an operator from the parser `p` = [tokens, current] it is *)
(* called on to its Result: Ok with the value `v` and the parser `p` it    *)
(* leaves, or Err with the ParseError.  `current` counts from 0.           *)
(***************************************************************************)
ParserNew(tokens) == [tokens |-> tokens, current |-> 0]

POk(v, p) == [tag |-> "Ok", v |-> v, p |-> p]
PErr(error) == [tag |-> "Err", error |-> error]

MaxArguments == 255

ParserPeek(p) == p.tokens[p.current + 1]
ParserPrevious(p) == p.tokens[p.current]
ParserIsAtEnd(p) == ParserPeek(p).token_type = "Eof"
ParserCheck(p, token_type) ==
    IF ParserIsAtEnd(p) THEN FALSE ELSE ParserPeek(p).token_type = token_type
ParserAdvance(p) == IF ~ParserIsAtEnd(p) THEN [p EXCEPT !.current = @ + 1] ELSE p

\* match_ is true iff the next token has one of the types, and then advances
ParserMatch(p, token_types) == \E token_type \in token_types : ParserCheck(p, token_type)

ParserError(token, message) ==
    IF token.token_type = "Eof"
    THEN "[line " \o ToString(token.line) \o "] Error at end: " \o message
    ELSE "[line " \o ToString(token.line) \o "] Error at '" \o token.lexeme
         \o "': " \o message

Consume(p, token_type, message) ==
    IF ParserCheck(p, token_type)
    THEN POk(ParserPrevious(ParserAdvance(p)), ParserAdvance(p))
    ELSE PErr(ParserError(ParserPeek(p), message))

\* the `?` operator: an Err result is returned, an Ok result continues
Try(result, Rest(_)) == IF result.tag = "Err" THEN result ELSE Rest(result)

\* self.method(), for the methods that take no argument: the call of the
\* method named `method` on the parser p
RECURSIVE Parser(_, _)

ParsePrimary(p) ==
    IF ParserMatch(p, {"False"}) THEN POk(Literal(LitBoolean(FALSE)), ParserAdvance(p))
    ELSE IF ParserMatch(p, {"True"}) THEN POk(Literal(LitBoolean(TRUE)), ParserAdvance(p))
    ELSE IF ParserMatch(p, {"Nil"}) THEN POk(Literal(LitNil), ParserAdvance(p))
    ELSE IF ParserMatch(p, {"Number", "String"})
    THEN POk(Literal(ParserPeek(p).literal), ParserAdvance(p))
    ELSE IF ParserMatch(p, {"Identifier"}) THEN POk(Variable(ParserPeek(p)), ParserAdvance(p))
    ELSE IF ParserMatch(p, {"LeftParen"})
    THEN Try(Parser("expression", ParserAdvance(p)), LAMBDA expression :
         Try(Consume(expression.p, "RightParen", "Expect ')' after expression."),
             LAMBDA closed : POk(Grouping(expression.v), closed.p)))
    ELSE PErr(ParserError(ParserPeek(p), "Expect expression."))

\* the loop of finish_call, entered with the arguments parsed so far
RECURSIVE ParseArguments(_, _)
ParseArguments(p, arguments) ==
    IF Len(arguments) >= MaxArguments
    THEN PErr(ParserError(ParserPeek(p), "Can't have more than 255 arguments."))
    ELSE Try(Parser("expression", p), LAMBDA argument :
             IF ParserMatch(argument.p, {"Comma"})
             THEN ParseArguments(ParserAdvance(argument.p), Append(arguments, argument.v))
             ELSE POk(Append(arguments, argument.v), argument.p))

ParseFinishCall(p, callee) ==
    Try(IF ~ParserCheck(p, "RightParen") THEN ParseArguments(p, <<>>) ELSE POk(<<>>, p),
        LAMBDA arguments :
    Try(Consume(arguments.p, "RightParen", "Expect ')' after arguments."),
        LAMBDA parenthesis : POk(Call(callee, parenthesis.v, arguments.v), parenthesis.p)))

RECURSIVE ParseCallLoop(_, _)
ParseCallLoop(p, expression) ==
    IF ParserMatch(p, {"LeftParen"})
    THEN Try(ParseFinishCall(ParserAdvance(p), expression),
             LAMBDA finished : ParseCallLoop(finished.p, finished.v))
    ELSE POk(expression, p)

ParseCall(p) ==
    Try(Parser("primary", p), LAMBDA expression : ParseCallLoop(expression.p, expression.v))

ParseUnary(p) ==
    IF ParserMatch(p, {"Bang", "Minus"})
    THEN Try(Parser("unary", ParserAdvance(p)),
             LAMBDA right : POk(Unary(ParserPeek(p), right.v), right.p))
    ELSE Parser("call", p)

RECURSIVE ParseFactorLoop(_, _)
ParseFactorLoop(p, expression) ==
    IF ParserMatch(p, {"Slash", "Star"})
    THEN Try(Parser("unary", ParserAdvance(p)), LAMBDA right :
             ParseFactorLoop(right.p, Binary(expression, ParserPeek(p), right.v)))
    ELSE POk(expression, p)

ParseFactor(p) ==
    Try(Parser("unary", p), LAMBDA expression : ParseFactorLoop(expression.p, expression.v))

RECURSIVE ParseTermLoop(_, _)
ParseTermLoop(p, expression) ==
    IF ParserMatch(p, {"Minus", "Plus"})
    THEN Try(Parser("factor", ParserAdvance(p)), LAMBDA right :
             ParseTermLoop(right.p, Binary(expression, ParserPeek(p), right.v)))
    ELSE POk(expression, p)

\* as ParseTerm, but the right operand is a whole term: `-` and `+`
\* associate to the right
ParseTermRightAssociative(p) ==
    Try(Parser("factor", p), LAMBDA expression :
        IF ParserMatch(expression.p, {"Minus", "Plus"})
        THEN Try(Parser("term", ParserAdvance(expression.p)), LAMBDA right :
                 POk(Binary(expression.v, ParserPeek(expression.p), right.v), right.p))
        ELSE expression)

ParseTerm(p) ==
    Try(Parser("factor", p), LAMBDA expression : ParseTermLoop(expression.p, expression.v))

RECURSIVE ParseComparisonLoop(_, _)
ParseComparisonLoop(p, expression) ==
    IF ParserMatch(p, {"Greater", "GreaterEqual", "Less", "LessEqual"})
    THEN Try(Parser("term", ParserAdvance(p)), LAMBDA right :
             ParseComparisonLoop(right.p, Binary(expression, ParserPeek(p), right.v)))
    ELSE POk(expression, p)

ParseComparison(p) ==
    Try(Parser("term", p),
        LAMBDA expression : ParseComparisonLoop(expression.p, expression.v))

RECURSIVE ParseEqualityLoop(_, _)
ParseEqualityLoop(p, expression) ==
    IF ParserMatch(p, {"BangEqual", "EqualEqual"})
    THEN Try(Parser("comparison", ParserAdvance(p)), LAMBDA right :
             ParseEqualityLoop(right.p, Binary(expression, ParserPeek(p), right.v)))
    ELSE POk(expression, p)

ParseEquality(p) ==
    Try(Parser("comparison", p),
        LAMBDA expression : ParseEqualityLoop(expression.p, expression.v))

RECURSIVE ParseAndLoop(_, _)
ParseAndLoop(p, expression) ==
    IF ParserMatch(p, {"And"})
    THEN Try(Parser("equality", ParserAdvance(p)), LAMBDA right :
             ParseAndLoop(right.p, Logical(expression, ParserPeek(p), right.v)))
    ELSE POk(expression, p)

ParseAnd(p) ==
    Try(Parser("equality", p), LAMBDA expression : ParseAndLoop(expression.p, expression.v))

RECURSIVE ParseOrLoop(_, _)
ParseOrLoop(p, expression) ==
    IF ParserMatch(p, {"Or"})
    THEN Try(Parser("and", ParserAdvance(p)), LAMBDA right :
             ParseOrLoop(right.p, Logical(expression, ParserPeek(p), right.v)))
    ELSE POk(expression, p)

ParseOr(p) ==
    Try(Parser("and", p), LAMBDA expression : ParseOrLoop(expression.p, expression.v))

\* as ParseAssignment, but the left side is checked before the right side
\* is parsed
ParseAssignmentChecksTargetFirst(p) ==
    Try(Parser("or", p), LAMBDA expression :
        IF ParserMatch(expression.p, {"Equal"})
        THEN IF expression.v.type # "Variable"
             THEN PErr(ParserError(ParserPeek(expression.p), "Invalid assignment target."))
             ELSE Try(Parser("assignment", ParserAdvance(expression.p)),
                      LAMBDA value : POk(Assign(expression.v.name, value.v), value.p))
        ELSE expression)

ParseAssignment(p) ==
    Try(Parser("or", p), LAMBDA expression :
        IF ParserMatch(expression.p, {"Equal"})
        THEN Try(Parser("assignment", ParserAdvance(expression.p)), LAMBDA value :
                 IF expression.v.type = "Variable"
                 THEN POk(Assign(expression.v.name, value.v), value.p)
                 ELSE PErr(ParserError(ParserPeek(expression.p),
                                       "Invalid assignment target.")))
        ELSE expression)

ParseExpression(p) == Parser("assignment", p)

ParseExpressionStatement(p) ==
    Try(Parser("expression", p), LAMBDA expression :
    Try(Consume(expression.p, "Semicolon", "Expect ';' after expression."),
        LAMBDA semicolon : POk(StmtExpression(expression.v), semicolon.p)))

\* the loop of block, entered with the statements parsed so far
RECURSIVE ParseBlockLoop(_, _)
ParseBlockLoop(p, statements) ==
    IF ~ParserCheck(p, "RightBrace") /\ ~ParserIsAtEnd(p)
    THEN Try(Parser("declaration", p), LAMBDA statement :
             ParseBlockLoop(statement.p, Append(statements, statement.v)))
    ELSE Try(Consume(p, "RightBrace", "Expect '}' after block."),
             LAMBDA brace : POk(statements, brace.p))

ParseBlock(p) == ParseBlockLoop(p, <<>>)

ParseVariable(p) ==
    Try(Consume(p, "Identifier", "Expect variable name."), LAMBDA name :
    Try(IF ParserMatch(name.p, {"Equal"}) THEN Parser("expression", ParserAdvance(name.p))
        ELSE POk(None, name.p),
        LAMBDA initializer :
    Try(Consume(initializer.p, "Semicolon", "Expect ';' after variable declaration."),
        LAMBDA semicolon : POk(StmtVariable(name.v, initializer.v), semicolon.p))))

ParseWhile(p) ==
    Try(Consume(p, "LeftParen", "Expect '(' after 'while'."), LAMBDA open :
    Try(Parser("expression", open.p), LAMBDA condition :
    Try(Consume(condition.p, "RightParen", "Expect ')' after if condition."),
        LAMBDA close :
    Try(Parser("statement", close.p),
        LAMBDA body : POk(StmtWhile(condition.v, body.v), body.p)))))

\* entered after the `return` token, which is previous()
ParseReturn(p) ==
    Try(IF ~ParserCheck(p, "Semicolon") THEN Parser("expression", p) ELSE POk(None, p),
        LAMBDA value :
    Try(Consume(value.p, "Semicolon", "Expect ';' after return value."),
        LAMBDA semicolon : POk(StmtReturn(ParserPrevious(p), value.v), semicolon.p)))

ParsePrint(p) ==
    Try(Parser("expression", p), LAMBDA expression :
    Try(Consume(expression.p, "Semicolon", "Expect ';' after value."),
        LAMBDA semicolon : POk(StmtPrint(expression.v), semicolon.p)))

ParseIf(p) ==
    Try(Consume(p, "LeftParen", "Expect '(' after 'if'."), LAMBDA open :
    Try(Parser("expression", open.p), LAMBDA condition :
    Try(Consume(condition.p, "RightParen", "Expect ')' after if condition."),
        LAMBDA close :
    Try(Parser("statement", close.p), LAMBDA then_branch :
    Try(IF ParserMatch(then_branch.p, {"Else"})
        THEN Parser("statement", ParserAdvance(then_branch.p))
        ELSE POk(None, then_branch.p),
        LAMBDA else_branch :
            POk(StmtIf(condition.v, then_branch.v, else_branch.v), else_branch.p))))))

\* as ForLoop, but with the increment before the statement of the body
ForLoopIncrementFirst(initializer, condition, increment, statement) ==
    LET body == IF increment # None
                THEN StmtBlock(<<StmtExpression(increment), statement>>)
                ELSE statement
        loop == StmtWhile(condition, body)
    IN IF initializer # None THEN StmtBlock(<<initializer, loop>>) ELSE loop

\* the statement a `for` is desugared to, from its parsed clauses
ForLoop(initializer, condition, increment, statement) ==
    LET body == IF increment # None
                THEN StmtBlock(<<statement, StmtExpression(increment)>>)
                ELSE statement
        loop == StmtWhile(condition, body)
    IN IF initializer # None THEN StmtBlock(<<initializer, loop>>) ELSE loop

ParseFor(p) ==
    Try(Consume(p, "LeftParen", "Expect '(' after 'for'."), LAMBDA open :
    Try(IF ParserMatch(open.p, {"Semicolon"}) THEN POk(None, ParserAdvance(open.p))
        ELSE IF ParserMatch(open.p, {"Var"}) THEN Parser("variable", ParserAdvance(open.p))
        ELSE Parser("expression_statement", open.p),
        LAMBDA initializer :
    Try(IF ~ParserCheck(initializer.p, "Semicolon") THEN Parser("expression", initializer.p)
        ELSE POk(Literal(LitBoolean(TRUE)), initializer.p),
        LAMBDA condition :
    Try(Consume(condition.p, "Semicolon", "Expect ';' after loop condition."),
        LAMBDA semicolon :
    Try(IF ~ParserCheck(semicolon.p, "RightParen") THEN Parser("expression", semicolon.p)
        ELSE POk(None, semicolon.p),
        LAMBDA increment :
    Try(Consume(increment.p, "RightParen", "Expect ')' after for clauses."),
        LAMBDA close :
    Try(Parser("statement", close.p), LAMBDA statement :
        POk(ForLoop(initializer.v, condition.v, increment.v, statement.v),
            statement.p))))))))

ParseStatement(p) ==
    IF ParserMatch(p, {"For"}) THEN Parser("for_", ParserAdvance(p))
    ELSE IF ParserMatch(p, {"If"}) THEN Parser("if_", ParserAdvance(p))
    ELSE IF ParserMatch(p, {"Print"}) THEN Parser("print", ParserAdvance(p))
    ELSE IF ParserMatch(p, {"Return"}) THEN Parser("return_", ParserAdvance(p))
    ELSE IF ParserMatch(p, {"While"}) THEN Parser("while_", ParserAdvance(p))
    ELSE IF ParserMatch(p, {"LeftBrace"})
    THEN Try(Parser("block", ParserAdvance(p)),
             LAMBDA statements : POk(StmtBlock(statements.v), statements.p))
    ELSE Parser("expression_statement", p)

\* the loop of function, entered with the parameters parsed so far
RECURSIVE ParseParameters(_, _)
ParseParameters(p, parameters) ==
    IF Len(parameters) >= MaxArguments
    THEN PErr(ParserError(ParserPeek(p), "Can't have more than 255 parameters."))
    ELSE Try(Consume(p, "Identifier", "Expect parameter name."), LAMBDA parameter :
             IF ParserMatch(parameter.p, {"Comma"})
             THEN ParseParameters(ParserAdvance(parameter.p),
                                  Append(parameters, parameter.v))
             ELSE POk(Append(parameters, parameter.v), parameter.p))

ParseFunction(p, kind) ==
    Try(Consume(p, "Identifier", "Expect " \o kind \o " name."), LAMBDA name :
    Try(Consume(name.p, "LeftParen", "Expect '(' after " \o kind \o " name."),
        LAMBDA open :
    Try(IF ~ParserCheck(open.p, "RightParen") THEN ParseParameters(open.p, <<>>)
        ELSE POk(<<>>, open.p),
        LAMBDA parameters :
    Try(Consume(parameters.p, "RightParen", "Expect ')' after parameters."),
        LAMBDA close :
    Try(Consume(close.p, "LeftBrace", "Expect '{' before " \o kind \o " body."),
        LAMBDA brace :
    Try(Parser("block", brace.p),
        LAMBDA body : POk(StmtFunction(name.v, parameters.v, body.v), body.p)))))))

ParseDeclaration(p) ==
    IF ParserMatch(p, {"Fun"}) THEN ParseFunction(ParserAdvance(p), "function")
    ELSE IF ParserMatch(p, {"Var"}) THEN Parser("variable", ParserAdvance(p))
    ELSE Parser("statement", p)

\* the methods of the Parser, by name
Parser(method, p) ==
    CASE method = "declaration" -> ParseDeclaration(p)
      [] method = "statement" -> ParseStatement(p)
      [] method = "for_" -> ParseFor(p)
      [] method = "if_" -> ParseIf(p)
      [] method = "print" -> ParsePrint(p)
      [] method = "return_" -> ParseReturn(p)
      [] method = "while_" -> ParseWhile(p)
      [] method = "variable" -> ParseVariable(p)
      [] method = "block" -> ParseBlock(p)
      [] method = "expression_statement" -> ParseExpressionStatement(p)
      [] method = "expression" -> ParseExpression(p)
      [] method = "assignment" -> ParseAssignment(p)
      [] method = "or" -> ParseOr(p)
      [] method = "and" -> ParseAnd(p)
      [] method = "equality" -> ParseEquality(p)
      [] method = "comparison" -> ParseComparison(p)
      [] method = "term" -> ParseTerm(p)
      [] method = "factor" -> ParseFactor(p)
      [] method = "unary" -> ParseUnary(p)
      [] method = "call" -> ParseCall(p)
      [] method = "primary" -> ParsePrimary(p)

\* the loop of parse, entered with the statements parsed so far
RECURSIVE ParseLoop(_, _)
ParseLoop(p, statements) ==
    IF ~ParserIsAtEnd(p)
    THEN Try(Parser("declaration", p), LAMBDA statement :
             ParseLoop(statement.p, Append(statements, statement.v)))
    ELSE POk(statements, p)

Parse(p) == ParseLoop(p, <<>>)

(***************************************************************************)
(* Source texts given to the `run` command                                 *)
(***************************************************************************)
\* the clauses a `for` statement is written with, and what each parses to
ForInitializers ==
    {[text |-> ";", statement |-> None],
     [text |-> "var i = 0;", statement |-> Let("i", Num(0))],
     [text |-> "i = 0;", statement |-> Do(Set("i", Num(0)))]}

ForConditions ==
    {[text |-> "", expression |-> None],
     [text |-> "i < 2", expression |-> Binary(Var("i"), OpLess, Num(2))]}

ForIncrements ==
    {[text |-> "", expression |-> None],
     [text |-> "i = i + 1", expression |-> Set("i", Add(Var("i"), Num(1)))]}

\* { print i; i = i + 1; if (i > 2) return; }
ForBodyText == "{ print i; i = i + 1; if (i > 2) return; }"
ForBody ==
    StmtBlock(<<Say(Var("i")),
                Do(Set("i", Add(Var("i"), Num(1)))),
                StmtIf(Binary(Var("i"), OpGreater, Num(2)), Give(None), None)>>)

\* var i = 7; for (<initializer> <condition>; <increment>) <body> print i;
\* without the first statement when the initializer declares i
ForSource(initializer, condition, increment) ==
    (IF initializer.text = "var i = 0;" THEN "" ELSE "var i = 7; ")
    \o "for (" \o initializer.text \o " " \o condition.text \o "; "
    \o increment.text \o ") " \o ForBodyText \o " print i;"

ForSources ==
    {ForSource(initializer, condition, increment) :
        initializer \in ForInitializers, condition \in ForConditions,
        increment \in ForIncrements}

\* for (var i = 0; i < 3; i = i + 1) print i;
ForExampleSource == "for (var i = 0; i < 3; i = i + 1) print i;"

\* the left and right sides an assignment is written with; `expression` is
\* what the side parses to, `error` the error of parsing it up to the `;`
AssignmentTargets ==
    {[text |-> "a", expression |-> Var("a")],
     [text |-> "a + b", expression |-> Add(Var("a"), Var("b"))],
     [text |-> "(a)", expression |-> Grouping(Var("a"))],
     [text |-> "a()", expression |-> CallOf(Var("a"), <<>>)],
     [text |-> "1", expression |-> Num(1)],
     [text |-> "\"s\"", expression |-> Str("s")],
     [text |-> "nil", expression |-> Literal(LitNil)],
     [text |-> "-a", expression |-> Unary(OpMinus, Var("a"))],
     [text |-> "a or b", expression |-> Logical(Var("a"), OpOr, Var("b"))],
     [text |-> "a == b", expression |-> Binary(Var("a"), OpEqualEqual, Var("b"))]}

AssignmentValues ==
    {[text |-> "1", expression |-> Num(1), error |-> ""],
     [text |-> "c = 2", expression |-> Set("c", Num(2)), error |-> ""],
     [text |-> "", expression |-> None,
      error |-> "[line 1] Error at ';': Expect expression."],
     [text |-> "(c", expression |-> None,
      error |-> "[line 1] Error at ';': Expect ')' after expression."]}

AssignmentSource(target, value) == target.text \o " = " \o value.text \o ";"

AssignmentSources ==
    {AssignmentSource(target, value) :
        target \in AssignmentTargets, value \in AssignmentValues}

\* the binary operators, each with the level of the grammar that parses it:
\* a higher level binds tighter
BinaryOperators ==
    {[token |-> OpOr, level |-> 1], [token |-> OpAnd, level |-> 2],
     [token |-> OpEqualEqual, level |-> 3], [token |-> OpBangEqual, level |-> 3],
     [token |-> OpLess, level |-> 4], [token |-> OpLessEqual, level |-> 4],
     [token |-> OpGreater, level |-> 4], [token |-> OpGreaterEqual, level |-> 4],
     [token |-> OpMinus, level |-> 5], [token |-> OpPlus, level |-> 5],
     [token |-> OpSlash, level |-> 6], [token |-> OpStar, level |-> 6]}

\* a <first> b <second> c;
PrecedenceSource(first, second) ==
    "a " \o first.token.lexeme \o " b " \o second.token.lexeme \o " c;"

PrecedenceSources ==
    {PrecedenceSource(first, second) : first \in BinaryOperators, second \in BinaryOperators}

\* a = b <operator> c;   a <operator> b = c;   a <operator> -b(c);
AssignsSource(operator) == "a = b " \o operator.token.lexeme \o " c;"
AssignedSource(operator) == "a " \o operator.token.lexeme \o " b = c;"
UnarySource(operator) == "a " \o operator.token.lexeme \o " !b(c);"

OtherPrecedenceSources ==
    {AssignsSource(operator) : operator \in BinaryOperators}
    \cup {AssignedSource(operator) : operator \in BinaryOperators}
    \cup {UnarySource(operator) : operator \in BinaryOperators}
    \cup {"a = b = c;", "print 1 + 2 * 3;", "print 8 - 4 - 2;", "print 8 / 4 / 2;",
          "var a; var b; print a = b = 3; print a;", "!-a(b)(c);", "print -2 * 3;",
          "print (1 + 2) * 3;", "print 1 < 2 == 2 > 1;", "print !true == false;"}

\* texts with characters that start no lexeme, and texts of every lexeme
ScannerSources ==
    {"", "@", "#", "var x = 1 @ 2;", "$\n#\nprint 1;", "a # b // @\n$", "// @", "\"@\"",
     "1.5 + 12.25.x", "x.1", "1.", "7¾", "¾ x", "1.¾", "é_1 = \"a\nb\"; print é_1;",
     "({,.-+;*})", "! != = == < <= > >= / //", "\t \r\n 1", "a¾ = 1;",
     "and class else false for fun if nil or print return super this true var while",
     "\"open", "print \"a\" + \"\"; ?\n\"open\n", "x\n\"a\nb\nc", "\"a\" \"b"}

\* texts that run every kind of statement and expression
ProgramSources ==
    {"fun f(n) { if (n < 1) return clock() >= 0 or !nil; return f(n - 1); } print f(1);",
     "{ var s = (\"a\"); while (s != \"aaa\") s = s + \"a\"; print s; }",
     "var t = clock; print t; { print u; }",
     "fun g(a, b) { print a and b; } g(1, 2); g(3);",
     "fun (", "fun f", "fun f(", "fun f(a,", "fun f(a) x", "fun f() { print 1;",
     "var", "var x", "var x = ;", "print", "print 1", "return 1", "if", "if (1", "if (1) ",
     "while", "while (1", "for", "for (;", "for (;;", "for (;1;1", "{", "1", "f(1", "f(1,",
     "(1", "if (a) print 1; else print 2;", "return;", "var clock = 1; print clock;",
     "var x = y;", "var v; print v;", "print 1; print u; print 2;",
     "print 1; print 2 +; print 3;", "print 1; @ print 2;",
     "print 1; { print 2; -nil; print 3; } print 4;",
     "print 1; return; print 2;", "print 1; { print 2; return 5; print 3; } print 4;",
     "var i = 0; while (i < 5) { i = i + 1; print i; if (i == 2) return i; } print i;",
     "if (true) return 1; else print 0; print 2; return;",
     "var a = 0; \"s\" < (a = 1);", "var a = 0; nil + (a = 1);", "var a = 0; u < (a = 1);",
     "var a = 0; -\"s\" * (a = 1);", "var a = 0; (a = 1) - (a = \"s\");",
     "var a = 0; print (a = 1) + (a = 2); print a;"}

\* expressions with a Number value, each with the value as the `evaluate`
\* command is to print it and as the `print` statement is to print it
NumberExpressions ==
    {[text |-> "1 + 2", evaluate |-> "3.0", print |-> "3"],
     [text |-> "7", evaluate |-> "7.0", print |-> "7"],
     [text |-> "100", evaluate |-> "100.0", print |-> "100"],
     [text |-> "0 - 4", evaluate |-> "-4.0", print |-> "-4"],
     [text |-> "10.5", evaluate |-> "10.5", print |-> "10.5"],
     [text |-> "2.50", evaluate |-> "2.5", print |-> "2.5"],
     [text |-> "6 / 4", evaluate |-> "1.5", print |-> "1.5"]}

\* print <expression>;
PrintSource(expression) == "print " \o expression.text \o ";"

PrintSources == {PrintSource(expression) : expression \in NumberExpressions}

Sources ==
    ForSources \cup {ForExampleSource} \cup AssignmentSources \cup PrecedenceSources
    \cup OtherPrecedenceSources \cup ScannerSources \cup ProgramSources \cup PrintSources

(***************************************************************************)
(* main, `run` command (src/src/main.rs lines 97-132), between its calls   *)
(* of scan_tokens and interpret                                            *)
(***************************************************************************)
Exit(code) == [main EXCEPT !.pc = "exit", !.exit_code = code]

\* main.rs lines 106-108, and lines 67-69 of the `evaluate` command
RunLexError ==
    /\ main.command \in {"run", "evaluate"}
    /\ main.pc = "scanned"
    /\ scanner.had_error
    /\ main' = Exit(65)
    /\ UNCHANGED <<scanner, errors>>
    /\ InterpreterUnchanged

\* main.rs lines 110-117
RunParseError ==
    /\ main.command = "run"
    /\ main.pc = "scanned"
    /\ ~scanner.had_error
    /\ LET statements == Parse(ParserNew(scanner.tokens))
       IN /\ statements.tag = "Err"
          /\ errors' = Append(errors, statements.error)
    /\ main' = Exit(65)
    /\ UNCHANGED scanner
    /\ InterpreterUnchanged

\* main.rs lines 110-120: the statements are parsed, Interpreter::new makes
\* the interpreter and interpret is called
RunInterpret ==
    /\ main.command = "run"
    /\ main.pc = "scanned"
    /\ ~scanner.had_error
    /\ LET statements == Parse(ParserNew(scanner.tokens))
       IN /\ statements.tag = "Ok"
          /\ program' = statements.v
    /\ frames' = InnerDefine(<<InnerNew>>, 1, "clock", Function(1))
    /\ funcs' = <<ClockFunction>>
    /\ globals' = 1
    /\ environment' = 1
    /\ stack' = <<[fn |-> "interpret", node |-> None, pc |-> 0, idx |-> 1,
                   vals |-> <<>>, env |-> 0, previous |-> 0, entered |-> 1]>>
    /\ ret' = NoRet
    /\ main' = [main EXCEPT !.pc = "interpret"]
    /\ UNCHANGED <<scanner, errors, output>>

\* main.rs lines 120-131: interpret has returned
RunExit ==
    /\ main.command = "run"
    /\ main.pc = "interpret"
    /\ stack = <<>>
    /\ IF ret.tag = "Err"
       THEN /\ errors' = errors \o <<ret.message, "[line " \o ToString(ret.token.line) \o "]">>
            /\ main' = Exit(70)
       ELSE /\ UNCHANGED errors
            /\ main' = Exit(0)
    /\ UNCHANGED scanner
    /\ InterpreterUnchanged

(***************************************************************************)
(* main, `evaluate` command (src/src/main.rs lines 58-96)                  *)
(***************************************************************************)
\* texts of one expression, given to the `evaluate` command
EvaluateSources ==
    {"1 + 2", "7", "10.5", "2.50", "0 - 4", "6 / 4", "\"a\" + \"b\"", "1 < 2", "nil",
     "clock", "-\"a\"", "u", "(1", "1 +", "1 $ 2", "3 3", "", "100"}

\* main.rs lines 71-78
EvaluateParseError ==
    /\ main.command = "evaluate"
    /\ main.pc = "scanned"
    /\ ~scanner.had_error
    /\ LET root == ParseExpression(ParserNew(scanner.tokens))
       IN /\ root.tag = "Err"
          /\ errors' = Append(errors, root.error)
    /\ main' = Exit(65)
    /\ UNCHANGED scanner
    /\ InterpreterUnchanged

\* main.rs lines 71-81: the expression is parsed, Interpreter::new makes the
\* interpreter and evaluate is called on the expression
EvaluateRoot ==
    /\ main.command = "evaluate"
    /\ main.pc = "scanned"
    /\ ~scanner.had_error
    /\ LET root == ParseExpression(ParserNew(scanner.tokens))
       IN /\ root.tag = "Ok"
          /\ stack' = <<[fn |-> "evaluate", node |-> root.v, pc |-> 0, idx |-> 1,
                         vals |-> <<>>, env |-> 0, previous |-> 0, entered |-> 1]>>
    /\ frames' = InnerDefine(<<InnerNew>>, 1, "clock", Function(1))
    /\ funcs' = <<ClockFunction>>
    /\ globals' = 1
    /\ environment' = 1
    /\ ret' = NoRet
    /\ main' = [main EXCEPT !.pc = "interpret"]
    /\ UNCHANGED <<scanner, errors, program, output>>

\* main.rs lines 81-95: evaluate has returned
EvaluateExit ==
    /\ main.command = "evaluate"
    /\ main.pc = "interpret"
    /\ stack = <<>>
    /\ IF ret.tag = "Err"
       THEN /\ errors' = errors \o <<ret.message, "[line " \o ToString(ret.token.line) \o "]">>
            /\ main' = Exit(70)
            /\ UNCHANGED output
       ELSE /\ output' = Append(output,
                                IF ret.v.kind = "Number" THEN NumberDisplay(ret.v)
                                ELSE ValueDisplay(funcs, ret.v))
            /\ main' = Exit(0)
            /\ UNCHANGED errors
    /\ UNCHANGED <<scanner, program, frames, funcs, globals, environment, stack, ret>>

MainInit ==
    /\ \E command \in {"run", "evaluate"} :
       \E file_contents \in IF command = "run" THEN Sources ELSE EvaluateSources :
          /\ main = [command |-> command, file_contents |-> file_contents,
                     pc |-> "scan", exit_code |-> None]
          /\ scanner = ScannerNew(file_contents)
    /\ errors = <<>>
    /\ program = <<>>
    /\ frames = <<>>
    /\ funcs = <<>>
    /\ globals = 0
    /\ environment = 0
    /\ stack = <<>>
    /\ ret = NoRet
    /\ output = <<>>

MainNext ==
    \/ ScanTokens
    \/ RunLexError
    \/ RunParseError
    \/ RunInterpret
    \/ RunExit
    \/ EvaluateParseError
    \/ EvaluateRoot
    \/ EvaluateExit
    \/ Next

MainSpec == MainInit /\ [][MainNext]_vars

\* scan_tokens alone, from Scanner::new to its return: the loop of
\* scan_tokens (scanner.rs lines 60-70) goes on while it can
ScanSpec == MainInit /\ [][ScanTokens]_vars /\ WF_vars(ScanTokens)

(***************************************************************************)
(* Properties                                                              *)
(***************************************************************************)
Finished == stack = <<>>

\* the method `fn` returns to its caller in this step
Returns(fn) ==
    /\ stack # <<>>
    /\ Top.fn = fn
    /\ stack' = SubSeq(stack, 1, Len(stack) - 1)

\* C1: whenever execute_block returns -- after its last statement, with the
\* runtime error of a statement, or with the return carrier of a statement --
\* the current frame is again the frame that was current when it was invoked.
C1_ExecuteBlockRestoresFrame ==
    [][Returns("execute_block") =>
         /\ environment' = Top.entered
         /\ \/ ret'.tag = "OkNone" /\ Top.idx > Len(Top.node.statements)
            \/ ret'.tag \in {"Err", "OkSome"} /\ Top.idx <= Len(Top.node.statements)]_vars

\* ExitPathsProgram has run: a block ended normally (it printed "a"), a block
\* inside f was left by a return carrier (the call printed "1"), and the inner
\* block failed, two blocks deep; the current frame is the globals frame.
C1_Witness ==
    /\ program = ExitPathsProgram
    /\ Finished
    /\ output = <<"a", "1">>
    /\ ret = Err(Id("u"), "Undefined variable 'u'.")
    /\ Len(frames) = 6
    /\ environment = globals

\* C2: before the first and after every top-level statement, however it
\* completed, and after interpret has returned, the current frame is the
\* globals frame.
C2_TopLevelFrameIsGlobals ==
    (Finished \/ Top.fn = "interpret") => environment = globals

\* DeepErrorProgram has failed inside a block of a function called from a block
\* nested in a block: interpret is about to return the error.
C2_Witness ==
    /\ program = DeepErrorProgram
    /\ At("interpret", "None", 1)
    /\ ret = Err(OpMinus, "Operand must be a number.")
    /\ Len(frames) = 5
    /\ environment = globals

\* C3: when the evaluation of a Call expression returns -- with the callee's
\* value, with Nil, or with a runtime error -- the current frame is the frame
\* that was current when the evaluation of the Call started.
C3_CallRestoresFrame ==
    [][(Returns("evaluate") /\ Top.node.type = "Call") =>
         environment' = Top.entered]_vars

\* A call made from inside a block has come back with the error raised in the
\* callee's body; the current frame is the caller's block frame.
C3_Witness ==
    /\ At("evaluate", "Call", 4)
    /\ ret.tag = "Err"
    /\ environment = Top.entered
    /\ environment # globals
    /\ Len(frames) > environment + 1


\* the frames from `id` to the root, innermost first
RECURSIVE Chain(_, _)
Chain(fr, id) ==
    IF fr[id].enclosing = 0 THEN <<id>> ELSE <<id>> \o Chain(fr, fr[id].enclosing)

\* the nearest frame of the chain of `id` that binds `lexeme`; 0 when none does
Nearest(fr, id, lexeme) ==
    LET chain == Chain(fr, id)
        hits == {i \in 1..Len(chain) : lexeme \in DOMAIN fr[chain[i]].values}
    IN IF hits = {} THEN 0
       ELSE chain[CHOOSE i \in hits : \A j \in hits : i <= j]

\* fr2 is fr1 with the one binding lexeme |-> value written into frame id
OnlyBindingWritten(fr1, fr2, id, lexeme, value) ==
    /\ Len(fr2) = Len(fr1)
    /\ \A i \in 1..Len(fr1) : i # id => fr2[i] = fr1[i]
    /\ fr2[id].enclosing = fr1[id].enclosing
    /\ DOMAIN fr2[id].values = (DOMAIN fr1[id].values) \cup {lexeme}
    /\ fr2[id].values[lexeme] = value
    /\ \A n \in DOMAIN fr1[id].values : n # lexeme => fr2[id].values[n] = fr1[id].values[n]

\* frame id exists and binds lexeme to value
Binds(id, lexeme, value) ==
    /\ id <= Len(frames)
    /\ lexeme \in DOMAIN frames[id].values
    /\ frames[id].values[lexeme] = value

Undefined(name) == Err(name, "Undefined variable '" \o name.lexeme \o "'.")

\* C4: an assignment writes the value into the nearest frame, from the current
\* frame toward the root, that already binds the name, and changes nothing
\* else; when no frame of the chain binds the name it fails with
\* "Undefined variable '<name>'." and every frame is left as it was.
C4_AssignWritesNearestHolder ==
    [][(At("evaluate", "Assign", 1) /\ ret.tag = "Ok") =>
         LET name == Top.node.name
             holder == Nearest(frames, environment, name.lexeme)
         IN IF holder = 0
            THEN frames' = frames /\ ret' = Undefined(name)
            ELSE /\ ret' = Ok(ret.v)
                 /\ name.lexeme \in DOMAIN frames[holder].values
                 /\ OnlyBindingWritten(frames, frames', holder, name.lexeme, ret.v)]_vars

\* NearestProgram has assigned x = 3 in its innermost block: the enclosing block's
\* x was written, the innermost frame got no binding, the global x is still 1.
C4_Witness ==
    /\ program = NearestProgram
    /\ Len(frames) = 3
    /\ environment = 3
    /\ DOMAIN frames[3].values = {}
    /\ Binds(2, "x", Number(3, 1))
    /\ Binds(1, "x", Number(1, 1))

\* C5: reading a variable yields the value bound in the nearest frame, from the
\* current frame toward the root, that binds the name, and fails with
\* "Undefined variable '<name>'." and the name token when none does; a block's
\* own x hides the outer x while the block runs and the outer x, unchanged, is
\* read after it.
C5_GetReadsNearestHolder ==
    /\ [][At("evaluate", "Variable", 0) =>
            LET name == Top.node.name
                holder == Nearest(frames, environment, name.lexeme)
            IN /\ frames' = frames
               /\ ret' = IF holder = 0 THEN Undefined(name)
                         ELSE Ok(frames[holder].values[name.lexeme])]_vars
    /\ []((Finished /\ program = ShadowProgram) => output = <<"2", "1">>)

\* ShadowProgram is finished: 2 was printed inside the block, 1 after it.
C5_Witness ==
    /\ program = ShadowProgram
    /\ Finished
    /\ output = <<"2", "1">>
    /\ Binds(2, "x", Number(2, 1))
    /\ Binds(1, "x", Number(1, 1))

\* a declaration (var or fun) is about to define its name
Defines ==
    \/ At("execute", "Variable", 0) /\ Top.node.initializer = None
    \/ At("execute", "Variable", 1) /\ ret.tag = "Ok"
    \/ At("execute", "Function", 0)

DefinedValue ==
    CASE Top.node.type = "Function" -> Function(Len(funcs) + 1)
      [] Top.pc = 0 -> Nil
      [] OTHER -> ret.v

\* C6: a declaration binds its name in the current frame, replacing a binding
\* of that name there, and changes no other frame and no other binding, also
\* when an enclosing frame binds the same name.
C6_DefineWritesCurrentFrame ==
    [][Defines =>
         /\ OnlyBindingWritten(frames, frames', environment, Top.node.name.lexeme,
                               DefinedValue)
         /\ environment' = environment]_vars

\* DefineProgram has run `var x = 5; var x;` in its innermost block after
\* assigning the global x = 3: the inner x was replaced by nil, the global x and
\* the middle frame are untouched by the declarations.
C6_Witness ==
    /\ program = DefineProgram
    /\ Len(frames) = 3
    /\ environment = 3
    /\ Binds(3, "x", Nil)
    /\ Binds(1, "x", Number(3, 1))
    /\ Binds(2, "y", Number(4, 1))


\* frames are only added, never rewired, and never lose a binding
FramesPersist ==
    /\ Len(frames') >= Len(frames)
    /\ \A i \in 1..Len(frames) :
         /\ frames'[i].enclosing = frames[i].enclosing
         /\ DOMAIN frames[i].values \subseteq DOMAIN frames'[i].values

\* a user function is about to be called with the arguments Top.vals
CallsLoxFunction ==
    /\ At("call", "Callable", 0)
    /\ Top.node.callable.kind = "LoxFunction"

\* C7: a function keeps the frame it was defined in after the block or call
\* that made the frame is over: the frame stays as the calls leave it, a
\* call's frame hangs off that very frame, so the counter made by makeCounter
\* yields 1 then 2, and a second function that captured the same frame reads
\* what the first one wrote.
C7_ClosureKeepsCapturedFrame ==
    /\ [][FramesPersist]_vars
    /\ [][CallsLoxFunction =>
            /\ SubSeq(frames', 1, Len(frames)) = frames
            /\ frames'[Len(frames')].enclosing = Top.node.callable.closure]_vars
    /\ []((Finished /\ program = CounterProgram) => output = <<"1", "2">>)
    /\ []((Finished /\ program = SharedProgram) => output = <<"1", "2">>)

\* SharedProgram is finished: the block that declared i, a and b is over, the
\* current frame is the globals frame, the captured frame holds i = 2 after the
\* two calls of inc, and get printed 1 and then 2.
C7_Witness ==
    /\ program = SharedProgram
    /\ Finished
    /\ environment = globals
    /\ funcs[2].closure = 2
    /\ funcs[3].closure = 2
    /\ Binds(2, "i", Number(2, 1))
    /\ output = <<"1", "2">>

\* C8: the body of a called user function runs in a new frame whose enclosing
\* frame is the function's closure frame, whatever the caller's current frame
\* is; the new frame binds exactly the parameters, each to its argument (the
\* last one of a repeated name wins); a name the body does not bind is looked
\* up along the closure chain, so the caller's local bindings are not seen.
C8_CallRunsInFrameOfClosure ==
    /\ [][CallsLoxFunction =>
            LET function == Top.node.callable
                new == Len(frames) + 1
                callee == stack'[Len(stack')]
            IN /\ Len(frames') = new
               /\ frames'[new].enclosing = function.closure
               /\ DOMAIN frames'[new].values =
                     {function.parameters[i].lexeme : i \in 1..Len(function.parameters)}
               /\ \A i \in 1..Len(function.parameters) :
                     (\A j \in (i + 1)..Len(function.parameters) :
                         function.parameters[j].lexeme # function.parameters[i].lexeme)
                     => frames'[new].values[function.parameters[i].lexeme] = Top.vals[i]
               /\ Len(stack') = Len(stack) + 1
               /\ callee.fn = "execute_block"
               /\ callee.node.statements = function.body
               /\ callee.env = new]_vars
    /\ []((stack # <<>> /\ Top.fn = "execute_block" /\ Top.pc > 0) => environment = Top.env)
    /\ []((Finished /\ program = LexicalProgram) =>
            output = <<"local", "global">> /\ ret = Undefined(Id("y")))

\* LexicalProgram is finished: show was called from a block that declares its
\* own x and y; it printed its argument, then the global x, and failed on y.
C8_Witness ==
    /\ program = LexicalProgram
    /\ Finished
    /\ output = <<"local", "global">>
    /\ ret = Undefined(Id("y"))
    /\ Binds(2, "y", String("hidden"))
    /\ Binds(3, "a", String("local"))
    /\ frames[3].enclosing = 1

InCall == \E i \in 1..Len(stack) : stack[i].fn = "call"

\* C9: a return statement yields its value, or Nil without an expression, as
\* the return carrier; while the carrier of a return executed in a function
\* body is on its way, every step only returns from one method with the same
\* carrier -- no statement runs, no frame, function or output changes -- until
\* the Call expression takes the value as its result; the caller then goes on:
\* ReturnProgram prints loop, 2, next and nothing else.
C9_ReturnEndsTheCall ==
    /\ [][(At("execute", "Return", 0) /\ Top.node.value = None) =>
            ret' = OkSome(Nil) /\ Returns("execute")]_vars
    /\ [][(At("execute", "Return", 1) /\ ret.tag = "Ok") =>
            ret' = OkSome(ret.v) /\ Returns("execute")]_vars
    /\ [][(stack # <<>> /\ ret.tag = "OkSome" /\ InCall) =>
            /\ Returns(Top.fn)
            /\ UNCHANGED <<frames, funcs, output>>
            /\ ret' = IF Top.fn = "evaluate" THEN Ok(ret.v) ELSE ret]_vars
    /\ []((Finished /\ program = ReturnProgram) =>
            output = <<"loop", "2", "next">> /\ ret = OkNone)
    /\ []((Finished /\ program = BareReturnProgram) =>
            output = <<"nil", "nil">> /\ ret = OkNone)

\* ReturnProgram is finished: f returned 2 from a block in an if in a while
\* loop in its second iteration; neither the rest of the loop body nor the
\* statement after the loop printed, and the statement after the call ran.
C9_Witness ==
    /\ program = ReturnProgram
    /\ Finished
    /\ output = <<"loop", "2", "next">>
    /\ ret = OkNone
    /\ Binds(2, "n", Number(2, 1))

Falsy(value) == value = Nil \/ value = Boolean(FALSE)

\* the step starts the evaluation of the right operand of the Logical on top
EvaluatesRight ==
    /\ Len(stack') = Len(stack) + 1
    /\ stack'[Len(stack')].fn = "evaluate"
    /\ stack'[Len(stack')].node = Top.node.right
    /\ stack'[Len(stack')].pc = 0

\* C10: once the left operand of `or` / `and` has a value, the right operand is
\* evaluated exactly when that value is falsy (`or`) / truthy (`and`);
\* otherwise the expression returns the left value at once and nothing of the
\* right operand happens; an evaluated right operand gives the result.
C10_LogicalShortCircuits ==
    /\ [][(At("evaluate", "Logical", 1) /\ ret.tag = "Ok") =>
            /\ UNCHANGED <<frames, funcs, output, environment>>
            /\ (Top.node.operator.token_type = "Or" => (EvaluatesRight <=> Falsy(ret.v)))
            /\ (Top.node.operator.token_type = "And" => (EvaluatesRight <=> ~Falsy(ret.v)))
            /\ (~EvaluatesRight => (Returns("evaluate") /\ ret' = Ok(ret.v)))]_vars
    /\ [][At("evaluate", "Logical", 2) => (Returns("evaluate") /\ ret' = ret)]_vars
    /\ []((Finished /\ program = LogicalProgram) => output = <<"0", "0", "3", "4", "4">>)
    /\ []((Finished /\ program = LogicalCallProgram) =>
            output = <<"", "nil", "called", "0">>)

\* LogicalProgram is finished: the assignments to the right of `true or` and
\* `false and` did not happen, those to the right of `nil or` and `1 and` did.
C10_Witness ==
    /\ program = LogicalProgram
    /\ Finished
    /\ output = <<"0", "0", "3", "4", "4">>
    /\ Binds(1, "a", Number(4, 1))

\* the step starts the evaluation of `node`, and of nothing else
Evaluates(node) ==
    /\ Len(stack') = Len(stack) + 1
    /\ stack'[Len(stack')].fn = "evaluate"
    /\ stack'[Len(stack')].node = node
    /\ stack'[Len(stack')].pc = 0

NotCallable(parenthesis) == Err(parenthesis, "Can only call functions and classes.")

\* C11 as stated: the callee is evaluated first; once it has a value that is
\* not a function, the Call fails at once with `Can only call functions and
\* classes.`, before any argument is evaluated; the arguments of a function
\* callee are evaluated left to right.
C11_CalleeCheckedBeforeArguments ==
    /\ [][At("evaluate", "Call", 0) => Evaluates(Top.node.callee)]_vars
    /\ [][(At("evaluate", "Call", 2) /\ Top.vals[1].kind # "Function") =>
            (Returns("evaluate") /\ ret' = NotCallable(Top.node.parenthesis))]_vars
    /\ [][(At("evaluate", "Call", 2) /\ Top.vals[1].kind = "Function"
            /\ Top.idx <= Len(Top.node.arguments)) =>
            Evaluates(Top.node.arguments[Top.idx])]_vars

\* C11, amended: the callee is evaluated first, then every argument, left to
\* right, whatever the callee's value is (argument number idx starts when
\* exactly the idx - 1 arguments before it have values); an error of the callee
\* or of an argument ends the Call with that error; only after the last
\* argument a callee that is not a function fails the Call with `Can only call
\* functions and classes.` and the closing parenthesis, and nothing is called.
C11_CalleeCheckedAfterArguments ==
    /\ [][At("evaluate", "Call", 0) => Evaluates(Top.node.callee)]_vars
    /\ [][((At("evaluate", "Call", 1) \/ At("evaluate", "Call", 3)) /\ ret.tag = "Err") =>
            (Returns("evaluate") /\ ret' = ret)]_vars
    /\ [][(At("evaluate", "Call", 1) /\ ret.tag = "Ok"
            /\ Len(Top.node.arguments) > 0) =>
            (Len(stack') = Len(stack) /\ stack'[Len(stack)].pc = 2
             /\ stack'[Len(stack)].idx = 1)]_vars
    /\ [][(At("evaluate", "Call", 2) /\ Top.idx <= Len(Top.node.arguments)) =>
            (Evaluates(Top.node.arguments[Top.idx]) /\ Len(Top.vals) = Top.idx)]_vars
    /\ [][(At("evaluate", "Call", 2) /\ Top.idx > Len(Top.node.arguments)
            /\ Top.vals[1].kind # "Function") =>
            /\ Returns("evaluate")
            /\ ret' = NotCallable(Top.node.parenthesis)
            /\ UNCHANGED <<frames, funcs, environment, output>>]_vars
    /\ []((Finished /\ program = CallOrderProgram) =>
            /\ output = <<"1", "10">>
            /\ ret = NotCallable(Paren)
            /\ Binds(1, "a", Number(5, 1)))

\* CallOrderProgram is finished: f received the values of its arguments in
\* the order written, and the call of the string "text" failed after its
\* argument had assigned 5 to a.
C11_Witness ==
    /\ program = CallOrderProgram
    /\ Finished
    /\ output = <<"1", "10">>
    /\ ret = NotCallable(Paren)
    /\ Binds(1, "a", Number(5, 1))

\* the frames of a new interpreter
NewInterpreterFrames == InnerDefine(<<InnerNew>>, 1, "clock", Function(1))

\* the Call on top has evaluated its callee, a function, and all its arguments
CallsFunction ==
    /\ At("evaluate", "Call", 2)
    /\ Top.idx > Len(Top.node.arguments)
    /\ Top.vals[1].kind = "Function"

\* C12: a call of a function of arity N with M # N arguments fails with
\* `Expected N arguments but got M.` and the closing parenthesis; nothing is
\* called: no frame is created, no name is bound, no statement of the body
\* runs.  ArityProgram (N = 2, M = 1), ArityMoreProgram (N = 1, M = 2) and
\* `clock(1)` (N = 0, M = 1) end so.
C12_ArityMismatchFails ==
    /\ [][(CallsFunction /\ Len(Top.node.arguments) # Arity(funcs[Top.vals[1].ptr])) =>
            /\ Returns("evaluate")
            /\ ret'.tag = "Err"
            /\ ret'.token = Top.node.parenthesis
            /\ ret'.message = "Expected " \o ToString(Arity(funcs[Top.vals[1].ptr]))
                               \o " arguments but got "
                               \o ToString(Len(Top.node.arguments)) \o "."
            /\ UNCHANGED <<frames, funcs, environment, output>>]_vars
    /\ []((Finished /\ program = ArityProgram) =>
            /\ ret = Err(Paren, "Expected 2 arguments but got 1.")
            /\ output = <<"<fn f>">>
            /\ frames = InnerDefine(NewInterpreterFrames, 1, "f", Function(2)))
    /\ []((Finished /\ program = ArityMoreProgram) =>
            /\ ret = Err(Paren, "Expected 1 arguments but got 2.")
            /\ output = <<>>
            /\ frames = InnerDefine(NewInterpreterFrames, 1, "g", Function(2)))
    /\ []((Finished /\ program = <<Do(CallOf(Var("clock"), <<Num(1)>>))>>) =>
            /\ ret = Err(Paren, "Expected 0 arguments but got 1.")
            /\ frames = NewInterpreterFrames)

\* ArityMoreProgram is finished: the call g(1, 2) failed, the body of g printed
\* nothing, and the only frame is the globals frame, where only g was added.
C12_Witness ==
    /\ program = ArityMoreProgram
    /\ Finished
    /\ ret = Err(Paren, "Expected 1 arguments but got 2.")
    /\ output = <<>>
    /\ Len(frames) = 1
    /\ DOMAIN frames[1].values = {"clock", "g"}

ArithmeticOperators ==
    {"Star", "Slash", "Minus", "Less", "LessEqual", "Greater", "GreaterEqual"}

\* C13: `* / - < <= > >=` applied to operands that are not both numbers fail
\* with exactly `Operands must be numbers.` and the operator token; unary `-`
\* applied to a value that is not a number fails with `Operand must be a
\* number.` and the operator token.
C13_OperandErrors ==
    /\ [][(At("evaluate", "Binary", 2) /\ ret.tag = "Ok"
            /\ Top.node.operator.token_type \in ArithmeticOperators
            /\ ~(Top.vals[1].kind = "Number" /\ ret.v.kind = "Number")) =>
            /\ Returns("evaluate")
            /\ ret' = Err(Top.node.operator, "Operands must be numbers.")]_vars
    /\ [][(At("evaluate", "Unary", 1) /\ ret.tag = "Ok"
            /\ Top.node.operator.token_type = "Minus"
            /\ ret.v.kind # "Number") =>
            /\ Returns("evaluate")
            /\ ret' = Err(Top.node.operator, "Operand must be a number.")]_vars

\* the Binary on top applies the operator `token_type` to two values
Compares(token_type) ==
    /\ At("evaluate", "Binary", 2)
    /\ ret.tag = "Ok"
    /\ Top.node.operator.token_type = token_type

\* C14 as stated: `==` is true exactly when both values are of the same kind
\* and are the same nil, truth value, number, string or function object; `!=`
\* is its negation.
C14_EqualWhenSameValue ==
    /\ [][Compares("EqualEqual") =>
            (Returns("evaluate") /\ ret' = Ok(Boolean(Top.vals[1] = ret.v)))]_vars
    /\ [][Compares("BangEqual") =>
            (Returns("evaluate") /\ ret' = Ok(Boolean(Top.vals[1] # ret.v)))]_vars

\* C14, amended: as stated, except that NaN is equal to no number, itself
\* included.  Two functions made by separate executions of one declaration
\* are unequal, a function is equal to itself (FunctionEqualityProgram).
C14_EqualWhenSameValueNotNaN ==
    /\ [][Compares("EqualEqual") =>
            /\ Returns("evaluate")
            /\ ret' = Ok(Boolean(Top.vals[1] = ret.v /\ ~(Top.vals[1].kind = "Number"
                                                          /\ IsNaN(Top.vals[1]))))]_vars
    /\ [][Compares("BangEqual") =>
            /\ Returns("evaluate")
            /\ ret' = Ok(Boolean(~(Top.vals[1] = ret.v /\ ~(Top.vals[1].kind = "Number"
                                                            /\ IsNaN(Top.vals[1])))))]_vars
    /\ []((Finished /\ program = FunctionEqualityProgram) =>
            output = <<"true", "false", "false", "true", "false", "false">>)
    /\ []((Finished /\ program = ValueEqualityProgram) =>
            output = <<"true", "false", "false", "true", "true", "false">>)
    /\ []((Finished /\ program = NaNProgram) => output = <<"false", "true", "true">>)

\* FunctionEqualityProgram is finished: mk ran five times and made five
\* functions g with the same code; h was equal to itself only.
C14_Witness ==
    /\ program = FunctionEqualityProgram
    /\ Finished
    /\ Len(funcs) = 7
    /\ funcs[3].name = funcs[4].name
    /\ funcs[3].body = funcs[4].body
    /\ output = <<"true", "false", "false", "true", "false", "false">>

\* the step starts the execution of `node`, and of nothing else
Executes(node) ==
    /\ Len(stack') = Len(stack) + 1
    /\ stack'[Len(stack')].fn = "execute"
    /\ stack'[Len(stack')].node = node
    /\ stack'[Len(stack')].pc = 0

\* C15: `if`, `while`, `!`, `and` and `or` all take exactly Boolean false and
\* Nil as falsy and every other value -- the number 0, the empty string and
\* functions included -- as truthy: `if` runs the else branch (or nothing) and
\* `while` ends exactly on a falsy condition, `!` gives true exactly for a
\* falsy operand, and `or` / `and` go on to the right operand exactly for a
\* falsy / truthy left operand.
C15_Truthiness ==
    /\ [][(At("execute", "If", 1) /\ ret.tag = "Ok") =>
            IF ~Falsy(ret.v) THEN Executes(Top.node.then_branch)
            ELSE IF Top.node.else_branch # None THEN Executes(Top.node.else_branch)
            ELSE Returns("execute") /\ ret' = OkNone]_vars
    /\ [][(At("execute", "While", 1) /\ ret.tag = "Ok") =>
            IF ~Falsy(ret.v) THEN Executes(Top.node.body)
            ELSE Returns("execute") /\ ret' = OkNone]_vars
    /\ [][(At("evaluate", "Unary", 1) /\ ret.tag = "Ok"
            /\ Top.node.operator.token_type = "Bang") =>
            (Returns("evaluate") /\ ret' = Ok(Boolean(Falsy(ret.v))))]_vars
    /\ [][(At("evaluate", "Logical", 1) /\ ret.tag = "Ok") =>
            (Evaluates(Top.node.right) <=>
                IF Top.node.operator.token_type = "Or" THEN Falsy(ret.v)
                ELSE ~Falsy(ret.v))]_vars
    /\ []((Finished /\ program = TruthyProgram) =>
            output = <<"zero", "empty", "function", "not nil", "loop">>)
    /\ []((Finished /\ program = NotProgram) =>
            output = <<"false", "false", "false", "true", "true", "false">>)
    /\ []((Finished /\ program = LogicalTruthyProgram) =>
            output = <<"0", "", "<native fn clock>", "1", "nil", "x">>)

\* TruthyProgram is finished: the branches guarded by 0, "" and clock ran, the
\* one guarded by nil did not, and the loop on "" ran until c was nil.
C15_Witness ==
    /\ program = TruthyProgram
    /\ Finished
    /\ output = <<"zero", "empty", "function", "not nil", "loop">>
    /\ Binds(1, "c", Nil)

\* C16 as stated: in every reachable state the globals frame binds `clock` to
\* the native clock function, of arity 0.
C16_GlobalsBindClock ==
    /\ Binds(globals, "clock", Function(1))
    /\ funcs[1] = ClockFunction
    /\ Arity(funcs[1]) = 0

\* the step writes the name `clock` in the globals frame: a declaration of
\* `clock` at global scope, or an assignment to a `clock` that no frame nearer
\* than the globals frame binds
RebindsGlobalClock ==
    \/ /\ Defines
       /\ Top.node.name.lexeme = "clock"
       /\ environment = globals
    \/ /\ At("evaluate", "Assign", 1)
       /\ ret.tag = "Ok"
       /\ Top.node.name.lexeme = "clock"
       /\ Nearest(frames, environment, "clock") = globals

\* C16, amended: in every reachable state the globals frame contains the name
\* `clock`, and the native clock function, of arity 0, exists; `clock` is
\* bound to it from Interpreter::new on, until the program itself declares
\* `clock` at global scope or assigns to the global `clock`, and only such a
\* statement changes the binding.
C16_GlobalsContainClock ==
    /\ [](/\ "clock" \in DOMAIN frames[globals].values
          /\ funcs[1] = ClockFunction
          /\ Arity(funcs[1]) = 0)
    /\ [][(Binds(globals, "clock", Function(1)) /\ ~RebindsGlobalClock) =>
            frames'[globals].values["clock"] = Function(1)]_vars
    /\ [][RebindsGlobalClock =>
            frames'[globals].values["clock"] =
                IF Defines THEN DefinedValue ELSE ret.v]_vars
    /\ []((Finished /\ program = ClockRedefineProgram) =>
            output = <<"2", "<native fn clock>", "nil", "1", "<fn clock>">>)

\* ClockRedefineProgram has run its block, which declared a local `clock`,
\* and the first two statements after it: the global `clock` was still the
\* native function after the block and is nil now, after the assignment.
C16_Witness ==
    /\ program = ClockRedefineProgram
    /\ At("interpret", "None", 0)
    /\ Top.idx = 5
    /\ output = <<"2", "<native fn clock>", "nil">>
    /\ Binds(globals, "clock", Nil)
    /\ Binds(2, "clock", Number(2, 1))

(***************************************************************************)
(* Parser and scanner, under MainSpec                                      *)
(***************************************************************************)
\* main has parsed the file and made the interpreter
Parsed == main.pc \in {"interpret", "exit"}

\* Block(init, While(cond, Block(body, ExprStmt(incr)))) for the clauses of
\* the tables, with literal true for an absent cond, without the inner Block
\* for an absent incr and without the outer Block for an absent init
ForDesugared(initializer, condition, increment) ==
    LET cond == IF condition.text = "" THEN Literal(LitBoolean(TRUE))
                ELSE condition.expression
        inner == IF increment.text = "" THEN ForBody
                 ELSE StmtBlock(<<ForBody, StmtExpression(increment.expression)>>)
        while == StmtWhile(cond, inner)
    IN IF initializer.text = ";" THEN while
       ELSE StmtBlock(<<initializer.statement, while>>)

\* what the body prints when the loop of ForSource is run: i starts at 7
\* without an initializer and at 0 with one, the body prints i, adds 1 and
\* leaves the loop when i > 2, and the increment adds 1 after the body
ForPrinted(initializer, condition, increment) ==
    IF initializer.text = ";"
    THEN (IF condition.text = "" THEN <<"7">> ELSE <<>>)
    ELSE IF condition.text = ""
    THEN (IF increment.text = "" THEN <<"0", "1", "2">> ELSE <<"0", "2">>)
    ELSE (IF increment.text = "" THEN <<"0", "1">> ELSE <<"0">>)

\* the value of the global i that the statement after the loop prints
ForLeaves(initializer, condition, increment) ==
    IF initializer.text = ";"
    THEN (IF condition.text = "" THEN "8" ELSE "7")
    ELSE IF condition.text = "" THEN "3" ELSE "2"

\* C17: the parser rewrites `for (init; cond; incr) body` into
\* Block(init, While(cond, Block(body, ExprStmt(incr)))), with literal true
\* when cond is absent, without the inner Block when incr is absent and
\* without the outer Block when init is absent.  So the run of the program
\* prints what a loop prints whose incr runs after the body and before cond
\* is tested again and whose init runs once; a variable declared in init is
\* undefined after the loop; and `for (var i = 0; i < 3; i = i + 1) print i;`
\* prints 0, 1, 2.
C17_ForDesugared ==
    /\ \A initializer \in ForInitializers, condition \in ForConditions,
          increment \in ForIncrements :
          main.file_contents = ForSource(initializer, condition, increment) =>
            /\ Parsed =>
                  program =
                    (IF initializer.text = "var i = 0;" THEN <<>>
                     ELSE <<Let("i", Num(7))>>)
                    \o <<ForDesugared(initializer, condition, increment),
                         Say(Var("i"))>>
            /\ main.pc = "exit" =>
                  IF initializer.text = "var i = 0;"
                  THEN /\ output = ForPrinted(initializer, condition, increment)
                       /\ errors = <<"Undefined variable 'i'.", "[line 1]">>
                       /\ main.exit_code = 70
                  ELSE /\ output = Append(ForPrinted(initializer, condition, increment),
                                          ForLeaves(initializer, condition, increment))
                       /\ errors = <<>>
                       /\ main.exit_code = 0
    /\ (main.file_contents = ForExampleSource /\ Parsed) =>
          /\ program =
                <<StmtBlock(<<Let("i", Num(0)),
                              StmtWhile(Binary(Var("i"), OpLess, Num(3)),
                                        StmtBlock(<<Say(Var("i")),
                                                    Do(Set("i", Add(Var("i"), Num(1))))
                                                  >>))>>)>>
          /\ main.pc = "exit" => (output = <<"0", "1", "2">> /\ main.exit_code = 0)

\* `for (var i = 0; i < 2; i = i + 1) { print i; i = i + 1; if (i > 2)
\* return; } print i;` has run: the loop printed 0 only, and the `print i`
\* after it failed, as i is undefined there
C17_Witness ==
    /\ \E initializer \in ForInitializers, condition \in ForConditions,
          increment \in ForIncrements :
          /\ initializer.text = "var i = 0;"
          /\ condition.text = "i < 2"
          /\ increment.text = "i = i + 1"
          /\ main.file_contents = ForSource(initializer, condition, increment)
    /\ main.pc = "exit"
    /\ main.exit_code = 70
    /\ output = <<"0">>
    /\ program[1].type = "Block"

InvalidAssignmentTarget == "[line 1] Error at '=': Invalid assignment target."

\* main has left with the parse error `error` as the only report
ParseFailedWith(error) ==
    /\ main.pc = "exit"
    /\ main.exit_code = 65
    /\ errors = <<error>>
    /\ program = <<>>

\* C18, as claimed: when the parser sees `=` after a left side parsed by
\* logic_or, the result is Assign{name, right} only if the left side is a
\* bare Variable expression; for any other left side parsing fails with
\* `Invalid assignment target.` reported at the `=` token.
C18_OtherTargetsFail ==
    \A target \in AssignmentTargets, value \in AssignmentValues :
        (main.file_contents = AssignmentSource(target, value) /\ main.pc # "scan") =>
          /\ (Parsed /\ program # <<>> /\ program[1].expression.type = "Assign") =>
                target.expression.type = "Variable"
          /\ (target.expression.type # "Variable" /\ main.pc # "scanned") =>
                ParseFailedWith(InvalidAssignmentTarget)

\* C18, amended: when the parser sees `=` after a left side parsed by
\* logic_or, it parses the right side by a recursive assignment call first,
\* and an error of that parse is the result, whatever the left side is.  When
\* the right side parses, the result is Assign{name, right} if the left side
\* is a bare Variable expression, and for any other left side parsing fails
\* with `Invalid assignment target.` reported at the `=` token.
C18_OtherTargetsFailAfterValue ==
    \A target \in AssignmentTargets, value \in AssignmentValues :
        (main.file_contents = AssignmentSource(target, value)
         /\ main.pc \notin {"scan", "scanned"}) =>
          IF value.error # "" THEN ParseFailedWith(value.error)
          ELSE IF target.expression.type = "Variable"
          THEN /\ Parsed
               /\ program = <<Do(Assign(target.expression.name, value.expression))>>
          ELSE ParseFailedWith(InvalidAssignmentTarget)

\* `(a) = 1;` has been parsed: the grouping is no assignment target
C18_Witness ==
    /\ main.file_contents = "(a) = 1;"
    /\ ParseFailedWith(InvalidAssignmentTarget)

\* the expression `left <operator> right`
Operation(left, operator, right) ==
    IF operator.level <= 2 THEN Logical(left, operator.token, right)
    ELSE Binary(left, operator.token, right)

\* the tree of `a <first> b <second> c`: the first operator takes b unless
\* the second binds tighter
Precedence(first, second) ==
    IF first.level >= second.level
    THEN Operation(Operation(Var("a"), first, Var("b")), second, Var("c"))
    ELSE Operation(Var("a"), first, Operation(Var("b"), second, Var("c")))

\* main has run the file to its end, and it printed `printed`
Printed(file_contents, printed) ==
    (main.file_contents = file_contents /\ main.pc = "exit") =>
        (output = printed /\ main.exit_code = 0)

\* C19: the parser's tree follows the precedence chain assignment < or < and
\* < equality < comparison < term < factor < unary < call.  Of two binary
\* operators in `a op1 b op2 c` the first takes b unless the second is of a
\* higher level, so operators of one level associate to the left; assignment
\* takes the whole expression to its right, associates to the right and
\* accepts no binary expression as its target; a unary operator and a call
\* bind tighter than every binary operator, a call tighter than a unary
\* operator; `print 1 + 2 * 3;` prints 7.
C19_Precedence ==
    /\ \A first \in BinaryOperators, second \in BinaryOperators :
          (main.file_contents = PrecedenceSource(first, second) /\ Parsed) =>
              program = <<Do(Precedence(first, second))>>
    /\ \A operator \in BinaryOperators :
          /\ (main.file_contents = AssignsSource(operator) /\ Parsed) =>
                program = <<Do(Set("a", Operation(Var("b"), operator, Var("c"))))>>
          /\ (main.file_contents = AssignedSource(operator)
               /\ main.pc \notin {"scan", "scanned"}) =>
                (main.pc = "exit" /\ errors = <<InvalidAssignmentTarget>>)
          /\ (main.file_contents = UnarySource(operator) /\ Parsed) =>
                program = <<Do(Operation(Var("a"), operator,
                                         Unary(OpBang, CallOf(Var("b"), <<Var("c")>>))))>>
    /\ (main.file_contents = "a = b = c;" /\ Parsed) =>
          program = <<Do(Set("a", Set("b", Var("c"))))>>
    /\ (main.file_contents = "!-a(b)(c);" /\ Parsed) =>
          program = <<Do(Unary(OpBang, Unary(OpMinus,
                         CallOf(CallOf(Var("a"), <<Var("b")>>), <<Var("c")>>))))>>
    /\ Printed("print 1 + 2 * 3;", <<"7">>)
    /\ Printed("print 8 - 4 - 2;", <<"2">>)
    /\ Printed("print 8 / 4 / 2;", <<"1">>)
    /\ Printed("print -2 * 3;", <<"-6">>)
    /\ Printed("print (1 + 2) * 3;", <<"9">>)
    /\ Printed("print 1 < 2 == 2 > 1;", <<"true">>)
    /\ Printed("print !true == false;", <<"true">>)
    /\ Printed("var a; var b; print a = b = 3; print a;", <<"3", "3">>)

\* `print 1 + 2 * 3;` was parsed to 1 + (2 * 3) and has printed 7
C19_Witness ==
    /\ main.file_contents = "print 1 + 2 * 3;"
    /\ main.pc = "exit"
    /\ program = <<Say(Add(Num(1), Binary(Num(2), OpStar, Num(3))))>>
    /\ output = <<"7">>

\* scan_tokens has returned
Scanned == main.pc \notin {"scan", "panic"}

TokenTypes == [i \in 1..Len(scanner.tokens) |-> scanner.tokens[i].token_type]
Lexemes == [i \in 1..Len(scanner.tokens) |-> scanner.tokens[i].lexeme]

\* scan_tokens has returned, for the text `file_contents`, tokens of these
\* types and lexemes and these reports
ScansTo(file_contents, token_types, lexemes, reports) ==
    (main.file_contents = file_contents /\ main.pc = "scanned") =>
        /\ TokenTypes = token_types
        /\ Lexemes = lexemes
        /\ errors = reports
        /\ scanner.had_error

\* C20: for every source text scan_tokens returns, and the token sequence
\* it returns contains exactly one Eof token, as its last element; a
\* character that starts no lexeme produces no token, sets had_error and does
\* not stop scanning: the tokens of the lexemes before and after it are
\* emitted in source order; had_error is true on return if and only if at
\* least one lex error was reported.
C20_ScanTokens ==
    /\ main.pc # "panic"
    /\ Scanned =>
          /\ Len(scanner.tokens) >= 1
          /\ \A i \in 1..Len(scanner.tokens) :
                (scanner.tokens[i].token_type = "Eof") <=> (i = Len(scanner.tokens))
    /\ main.pc = "scanned" => (scanner.had_error <=> errors # <<>>)
    /\ ScansTo("@", <<"Eof">>, <<"">>, <<"[line 1] Error: Unexpected character: @">>)
    /\ ScansTo("var x = 1 @ 2;",
               <<"Var", "Identifier", "Equal", "Number", "Number", "Semicolon", "Eof">>,
               <<"var", "x", "=", "1", "2", ";", "">>,
               <<"[line 1] Error: Unexpected character: @">>)
    /\ ScansTo("$\n#\nprint 1;", <<"Print", "Number", "Semicolon", "Eof">>,
               <<"print", "1", ";", "">>,
               <<"[line 1] Error: Unexpected character: $",
                 "[line 2] Error: Unexpected character: #">>)
    /\ ScansTo("a # b // @\n$", <<"Identifier", "Identifier", "Eof">>, <<"a", "b", "">>,
               <<"[line 1] Error: Unexpected character: #",
                 "[line 2] Error: Unexpected character: $">>)

\* the text after the character the scanner is at
Following == SubSeq(scanner.source, scanner.current + 2, Len(scanner.source))

\* the number of characters `character` in `text`
RECURSIVE Count(_, _)
Count(text, character) ==
    IF text = "" THEN 0
    ELSE (IF Head(text) = character THEN 1 ELSE 0) + Count(Tail(text), character)

\* the scanner is at the opening quote of a string that the source does not
\* close
AtUnterminatedString ==
    /\ Scanning
    /\ Character = "\""
    /\ Count(Following, "\"") = 0

\* C21: when the source ends before the closing quote of a string, the
\* scanner reports `Unterminated string.` with the line reached at the end of
\* the input, which is the line of the opening quote plus the number of
\* newlines in the unfinished string, sets had_error and adds no token; the
\* token sequence that scan_tokens returns still ends with Eof.
C21_UnterminatedString ==
    /\ [][AtUnterminatedString =>
            /\ errors' = Append(errors,
                                "[line " \o ToString(scanner.line + Count(Following, "\n"))
                                \o "] Error: Unterminated string.")
            /\ scanner'.had_error
            /\ scanner'.tokens = scanner.tokens
            /\ scanner'.current = Len(scanner.source)
            /\ main'.pc = "scan"]_vars
    /\ [](/\ ScansTo("\"open", <<"Eof">>, <<"">>,
                      <<"[line 1] Error: Unterminated string.">>)
          /\ ScansTo("x\n\"a\nb\nc", <<"Identifier", "Eof">>, <<"x", "">>,
                     <<"[line 4] Error: Unterminated string.">>)
          /\ ScansTo("\"a\" \"b", <<"String", "Eof">>, <<"\"a\"", "">>,
                     <<"[line 1] Error: Unterminated string.">>)
          /\ ScansTo("print \"a\" + \"\"; ?\n\"open\n",
                     <<"Print", "String", "Plus", "String", "Semicolon", "Eof">>,
                     <<"print", "\"a\"", "+", "\"\"", ";", "">>,
                     <<"[line 1] Error: Unexpected character: ?",
                       "[line 3] Error: Unterminated string.">>))

\* scan_tokens has returned for a text whose string opens on line 2 and is
\* unfinished at the end of the input, two newlines later
C21_Witness ==
    /\ main.file_contents = "x\n\"a\nb\nc"
    /\ main.pc = "scanned"
    /\ scanner.had_error
    /\ errors = <<"[line 4] Error: Unterminated string.">>
    /\ TokenTypes = <<"Identifier", "Eof">>

\* main has left with status 0 after writing `printed` to standard output
ExitedWith(command, file_contents, printed) ==
    (main.command = command /\ main.file_contents = file_contents /\ main.pc = "exit") =>
        (output = printed /\ main.exit_code = 0)

\* C22: the two number-formatting rules are distinct and gated on the
\* subcommand: the `evaluate` subcommand prints a Number result whose value
\* is an integer with a trailing `.0`, while the `print` statement under
\* `run` prints the same value without a forced `.0`.
C22_NumberFormats ==
    \A expression \in NumberExpressions :
        /\ ExitedWith("evaluate", expression.text, <<expression.evaluate>>)
        /\ ExitedWith("run", PrintSource(expression), <<expression.print>>)

\* no statement was parsed and no interpreter was made
NotInterpreted ==
    /\ program = <<>>
    /\ frames = <<>>
    /\ stack = <<>>
    /\ output = <<>>

\* the `run` command has left with this status after writing `printed` to
\* standard output
RunExited(file_contents, printed, exit_code) ==
    (main.command = "run" /\ main.file_contents = file_contents /\ main.pc = "exit") =>
        (output = printed /\ main.exit_code = exit_code)

\* C23: the stages of the `run` command are gated in order.  If scanning
\* reported a lex error the process exits with 65 and neither parses nor
\* executes; if parsing fails it exits with 65 and executes no statement; if
\* a runtime error occurs it exits with 70 after the statements before the
\* failing one have executed and none after it has; otherwise it exits with
\* 0.  So the process ends with no other status than 65, 70 and 0.
C23_RunStages ==
    /\ main.pc # "panic"
    /\ main.pc = "exit" => main.exit_code \in {0, 65, 70}
    /\ (main.command = "run" /\ Scanned) =>
          IF scanner.had_error
          THEN /\ NotInterpreted
               /\ main.pc # "scanned" => (main.pc = "exit" /\ main.exit_code = 65)
          ELSE IF Parse(ParserNew(scanner.tokens)).tag = "Err"
          THEN /\ NotInterpreted
               /\ main.pc # "scanned" => (main.pc = "exit" /\ main.exit_code = 65)
          ELSE /\ main.pc # "scanned" => program = Parse(ParserNew(scanner.tokens)).v
               /\ main.pc = "exit" =>
                     /\ stack = <<>>
                     /\ main.exit_code = IF ret.tag = "Err" THEN 70 ELSE 0
    /\ RunExited("print 1; @ print 2;", <<>>, 65)
    /\ RunExited("print 1; print 2 +; print 3;", <<>>, 65)
    /\ RunExited("print 1; print u; print 2;", <<"1">>, 70)
    /\ RunExited("print 1; { print 2; -nil; print 3; } print 4;", <<"1", "2">>, 70)
    /\ RunExited("var v; print v;", <<"nil">>, 0)

\* a statement of the program has handed a return carrier to interpret
ReturnsToInterpret ==
    /\ At("interpret", "None", 1)
    /\ ret.tag = "OkSome"

\* C24: a `return` statement executed outside any function call, directly at
\* top level or inside a top-level block, if or while, does not stop the
\* program: it ends at most the enclosing top-level statement, the rest of
\* whose block or loop is skipped; interpret discards the return carrier,
\* goes on with the following top-level statement and finishes without
\* error.
C24_TopLevelReturn ==
    /\ [][ReturnsToInterpret =>
            /\ stack' = <<[Top EXCEPT !.pc = 0, !.idx = @ + 1]>>
            /\ ret' = NoRet
            /\ UNCHANGED <<main, errors, output, frames, environment>>]_vars
    /\ [](/\ RunExited("print 1; return; print 2;", <<"1", "2">>, 0)
          /\ RunExited("print 1; { print 2; return 5; print 3; } print 4;",
                       <<"1", "2", "4">>, 0)
          /\ RunExited("var i = 0; while (i < 5) { i = i + 1; print i; "
                       \o "if (i == 2) return i; } print i;", <<"1", "2", "2">>, 0)
          /\ RunExited("if (true) return 1; else print 0; print 2; return;", <<"2">>, 0)
          /\ (main.pc = "exit" /\ main.exit_code = 0 /\ main.command = "run") =>
                (errors = <<>> /\ ret = OkNone))

\* the `return i;` in the top-level while loop has ended the loop in its
\* second round, and the statement after the loop has run
C24_Witness ==
    /\ main.file_contents = "var i = 0; while (i < 5) { i = i + 1; print i; "
                            \o "if (i == 2) return i; } print i;"
    /\ main.pc = "exit"
    /\ main.exit_code = 0
    /\ output = <<"1", "2", "2">>

\* the `run` command has left with status 70 for this text, with the global
\* variable a bound to `value`
FailedWithA(file_contents, value) ==
    (main.command = "run" /\ main.file_contents = file_contents /\ main.pc = "exit") =>
        /\ main.exit_code = 70
        /\ ret.tag = "Err"
        /\ output = <<>>
        /\ Binds(globals, "a", value)

\* C25: evaluating a Binary expression evaluates the left operand and then
\* the right operand completely, with all their side effects, before any
\* operand-type check is made.  Whatever value the left operand has, the
\* right operand is evaluated next, and an operand-type error is raised only
\* when the right operand has returned its value; a runtime error raised
\* while the left operand is evaluated ends the evaluation with that error,
\* and the right operand is not evaluated at all.
C25_OperandsBeforeCheck ==
    /\ [][(At("evaluate", "Binary", 1) /\ ret.tag = "Ok") =>
            /\ Len(stack') = Len(stack) + 1
            /\ stack'[Len(stack')].fn = "evaluate"
            /\ stack'[Len(stack')].node = Top.node.right
            /\ stack'[Len(stack')].pc = 0
            /\ stack'[Len(stack)].vals = <<ret.v>>]_vars
    /\ [][(At("evaluate", "Binary", 1) /\ ret.tag = "Err") =>
            /\ stack' = SubSeq(stack, 1, Len(stack) - 1)
            /\ ret' = ret
            /\ UNCHANGED <<frames, output>>]_vars
    /\ [][(At("evaluate", "Binary", 2) /\ ret.tag = "Err") => ret' = ret]_vars
    /\ [](/\ FailedWithA("var a = 0; \"s\" < (a = 1);", Number(1, 1))
          /\ FailedWithA("var a = 0; nil + (a = 1);", Number(1, 1))
          /\ FailedWithA("var a = 0; (a = 1) - (a = \"s\");", String("s"))
          /\ FailedWithA("var a = 0; u < (a = 1);", Number(0, 1))
          /\ FailedWithA("var a = 0; -\"s\" * (a = 1);", Number(0, 1))
          /\ RunExited("var a = 0; print (a = 1) + (a = 2); print a;", <<"3", "2">>, 0))

\* `"s" < (a = 1)` has failed the operand check of `<`, and the assignment
\* in its right operand has been made
C25_Witness ==
    /\ main.file_contents = "var a = 0; \"s\" < (a = 1);"
    /\ main.pc = "exit"
    /\ main.exit_code = 70
    /\ ret.tag = "Err"
    /\ ret.token.token_type = "Less"
    /\ Binds(globals, "a", Number(1, 1))

\* C26: during scan_tokens the cursor satisfies 0 <= start <= current <=
\* length of the source in every state; every scan_token step sets start to
\* current and then increases current by at least one character; hence
\* scan_tokens ends for every source text.
C26_ScanTerminates ==
    /\ [](/\ 0 <= scanner.start
          /\ scanner.start <= scanner.current
          /\ scanner.current <= Len(scanner.source))
    /\ [][Scanning =>
            /\ scanner'.start = scanner.current
            /\ scanner'.current >= scanner.current + 1
            /\ scanner'.source = scanner.source]_vars
    /\ <>(main.pc # "scan")

\* scan_tokens has returned after a last lexeme of several characters in a
\* text of several lexemes: the cursor is at the end of the source
C26_Witness ==
    /\ main.pc = "scanned"
    /\ scanner.current = Len(scanner.source)
    /\ scanner.current >= scanner.start + 3
    /\ Len(scanner.tokens) >= 5

====
